---- MODULE Spec2Model ----
(***************************************************************************)
(* Model of the server-side JSON-RPC dispatch engine of jsonrpclib         *)
(* (jsonrpclib/server_protocol.py) with the payload codec it relies on     *)
(* (jsonrpclib/client_protocol.py) and the notification pool.              *)
(*                                                                         *)
(* Python and JSON values are written as tagged literals: "null" is None   *)
(* / JSON null, "i:0" the integer 0, "s:" the empty string, "s:sum" the    *)
(* string "sum", "[1,2]" a list, "{a:1}" an object.  Absent marks a key    *)
(* that is not in a dictionary.  A request text is a sequence of tokens,   *)
(* one token per punctuation mark ("[", "]", ",") and one per literal      *)
(* (an object literal, a scalar literal, a truncated object literal).     *)
(***************************************************************************)
EXTENDS Integers, Sequences, FiniteSets, TLC

\* ------------------------------------------------------------------------
\* Bounds of the model

\* Longest batch (number of entries of a JSON array request)
MaxBatch == 2

\* Most tasks of earlier requests still waiting in the notification pool
\* when a request arrives
MaxBacklog == 0

\* ------------------------------------------------------------------------
\* Literals

Absent == "ABSENT"
None == "null"

StringLits == {"s:", "s:1", "s:x", "s:2.0", "s:bar", "s:boo",
               "s:sum", "s:fail", "s:get_object", "s:foobar"}
ListLits == {"[]", "[1,2]", "[a]"}
DictLits == {"{}", "{a:1}"}
\* Tuples exist on the Python side only: JSON text has none
TupleLits == {"()", "(1,2)"}

\* Python truth value of a literal (the values `not x` accepts)
Truthy(v) == v \notin {Absent, None, "i:0", "s:", "[]", "()", "{}", "false"}

\* ------------------------------------------------------------------------
\* Request side: tokens and decoded values

\* A decoded JSON object with the keys the engine looks at; `extra` stands
\* for any other key ({"foo": "boo"})
Dict(j, i, m, p, x) ==
    [kind |-> "dict", lit |-> Absent, jsonrpc |-> j, id |-> i,
     method |-> m, params |-> p, extra |-> x]

\* A decoded JSON value that is not an object (number, string, null, or an
\* array nested in a batch)
Atom(l) ==
    [kind |-> "atom", lit |-> l, jsonrpc |-> Absent, id |-> Absent,
     method |-> Absent, params |-> Absent, extra |-> Absent]

\* Punctuation token, or the token of a truncated object literal ("broken")
Punct(c) ==
    [kind |-> c, lit |-> Absent, jsonrpc |-> Absent, id |-> Absent,
     method |-> Absent, params |-> Absent, extra |-> Absent]

LBracket == Punct("[")
RBracket == Punct("]")
Comma == Punct(",")
Broken == Punct("broken")

IsValueToken(t) == t.kind \in {"dict", "atom"}

\* Python value of the whole request: a list of entries, or one value
\* (None is the atom null)
ListValue(items) == [kind |-> "list", items |-> items]
SingleValue(e) == [kind |-> "single", items |-> <<e>>]
NoneValue == SingleValue(Atom(None))

\* `not request` of Python for a decoded request value
IsEmptyDict(e) ==
    /\ e.kind = "dict"
    /\ e.jsonrpc = Absent /\ e.id = Absent /\ e.method = Absent
    /\ e.params = Absent /\ e.extra = Absent

EntryTruthy(e) ==
    IF e.kind = "dict" THEN ~IsEmptyDict(e) ELSE Truthy(e.lit)

ValueTruthy_always(v) == TRUE

ValueTruthy(v) ==
    IF v.kind = "list" THEN Len(v.items) > 0 ELSE EntryTruthy(v.items[1])

\* ------------------------------------------------------------------------
\* JSON text codec (jsonrpclib.parser)

\* Items of "v , v , ... , v": the values at the odd positions, provided
\* the even positions hold commas; <<Broken>> marks a syntax error
ParseItems_skipping(toks) ==
    SelectSeq(toks, IsValueToken)

RECURSIVE ParseItems(_)
ParseItems(toks) ==
    IF Len(toks) = 0 THEN <<Broken>>
    ELSE IF ~IsValueToken(Head(toks)) THEN <<Broken>>
    ELSE IF Len(toks) = 1 THEN <<Head(toks)>>
    ELSE IF toks[2] # Comma THEN <<Broken>>
    ELSE LET rest == ParseItems(SubSeq(toks, 3, Len(toks)))
         IN  IF rest = <<Broken>> THEN <<Broken>>
             ELSE <<Head(toks)>> \o rest

\* jloads: the decoded value, or a ValueError
jloads(json_string) ==
    LET n == Len(json_string)
        array(items) ==
            IF items = <<Broken>> THEN [error |-> TRUE, value |-> NoneValue]
            ELSE [error |-> FALSE, value |-> ListValue(items)]
    IN  IF n = 0 THEN [error |-> TRUE, value |-> NoneValue]
        ELSE IF n = 1 /\ IsValueToken(json_string[1])
        THEN [error |-> FALSE, value |-> SingleValue(json_string[1])]
        ELSE IF n >= 2 /\ json_string[1] = LBracket
                /\ json_string[n] = RBracket
        THEN IF n = 2 THEN [error |-> FALSE, value |-> ListValue(<<>>)]
             ELSE array(ParseItems(SubSeq(json_string, 2, n - 1)))
        ELSE [error |-> TRUE, value |-> NoneValue]

\* Text of a decoded value, as json.dumps writes it
RECURSIVE JoinTokens(_)
JoinTokens(items) ==
    IF Len(items) = 0 THEN <<>>
    ELSE IF Len(items) = 1 THEN <<items[1]>>
    ELSE <<items[1], Comma>> \o JoinTokens(Tail(items))

TextOf(v) ==
    IF v.kind = "list" THEN <<LBracket>> \o JoinTokens(v.items) \o <<RBracket>>
    ELSE v.items

\* load: None stays None; the values of the model hold no bean to convert
load(data) ==
    IF data = NoneValue THEN NoneValue ELSE data

\* loads: an empty text is taken as "no content" and never parsed
loads(data) ==
    LET loaded(result) ==
            IF result.error THEN result
            ELSE [error |-> FALSE, value |-> load(result.value)]
    IN  IF Len(data) = 0 THEN [error |-> FALSE, value |-> NoneValue]
        ELSE loaded(jloads(data))

\* ------------------------------------------------------------------------
\* Response side: Fault and Payload (jsonrpclib.client_protocol)

\* A Fault object; `version` is the version of the Config it was built with
Fault(code, message, rpcid, version) ==
    [code |-> code, message |-> message, rpcid |-> rpcid, version |-> version]

\* A response dictionary. result / error are Absent when the key is not in
\* the dictionary; `error` is "{error}" for an error object, whose code and
\* message are in `code` and `message`
Payload_response(id, version, result) ==
    IF version >= 2
    THEN [kind |-> "response", jsonrpc |-> "s:2.0", id |-> id,
          result |-> result, error |-> Absent, code |-> 0, message |-> ""]
    ELSE [kind |-> "response", jsonrpc |-> Absent, id |-> id,
          result |-> result, error |-> None, code |-> 0, message |-> ""]

Payload_error_keeping_result(id, version, code, message) ==
    LET error == Payload_response(id, version, None)
    IN  [error EXCEPT !.error = "{error}",
                      !.code = code,
                      !.message = message]

Payload_error(id, version, code, message) ==
    LET error == Payload_response(id, version, None)
    IN  [error EXCEPT !.result = IF version >= 2 THEN Absent ELSE None,
                      !.error = "{error}",
                      !.code = code,
                      !.message = message]

\* "No response" (Python None) where a response dictionary may stand
NoResponse ==
    [kind |-> "None", jsonrpc |-> Absent, id |-> Absent,
     result |-> Absent, error |-> Absent, code |-> 0, message |-> ""]

\* Punctuation token of a response text
RPunct(c) ==
    [kind |-> c, jsonrpc |-> Absent, id |-> Absent,
     result |-> Absent, error |-> Absent, code |-> 0, message |-> ""]

\* What a call returns: a plain value, a Fault object, or a raised error
Returned(value) ==
    [t |-> "value", value |-> value, fault |-> Fault(0, "", None, 0),
     exc |-> ""]
ReturnedFault(f) ==
    [t |-> "fault", value |-> None, fault |-> f, exc |-> ""]
Raised(exc) ==
    [t |-> "raise", value |-> None, fault |-> Fault(0, "", None, 0),
     exc |-> exc]

\* jsonclass.dump of a handler's result: the object returned by get_object
\* has no JSON form and the conversion raises; plain values are unchanged
jsonclass_dump(value) ==
    IF value = "object" THEN Raised("TranslationError") ELSE Returned(value)

\* dump(params, rpcid=rpcid, is_response=True, config=config), where the
\* version of config is `version`: a response dictionary or a raised error
dump_rejecting_falsy_id(params, rpcid, version) ==
    LET response(converted) ==
            IF converted.t = "raise"
            THEN [raised |-> TRUE, exc |-> converted.exc,
                  resp |-> NoResponse]
            ELSE IF ~Truthy(rpcid)
            THEN [raised |-> TRUE, exc |-> "ValueError",
                  resp |-> NoResponse]
            ELSE [raised |-> FALSE, exc |-> "",
                  resp |-> Payload_response(rpcid, version,
                                            converted.value)]
    IN  IF params.t = "fault"
        THEN [raised |-> FALSE, exc |-> "",
              resp |-> Payload_error(rpcid, version, params.fault.code,
                                     params.fault.message)]
        ELSE response(jsonclass_dump(params.value))

dump(params, rpcid, version) ==
    LET response(converted) ==
            IF converted.t = "raise"
            THEN [raised |-> TRUE, exc |-> converted.exc,
                  resp |-> NoResponse]
            ELSE IF rpcid = None
            THEN [raised |-> TRUE, exc |-> "ValueError",
                  resp |-> NoResponse]
            ELSE [raised |-> FALSE, exc |-> "",
                  resp |-> Payload_response(rpcid, version,
                                            converted.value)]
    IN  IF params.t = "fault"
        THEN [raised |-> FALSE, exc |-> "",
              resp |-> Payload_error(rpcid, version, params.fault.code,
                                     params.fault.message)]
        ELSE response(jsonclass_dump(params.value))

\* Fault.dump(): the Fault as a response dictionary with its own rpcid
Fault_dump(fault) ==
    dump(ReturnedFault(fault), fault.rpcid, fault.version).resp

\* jdumps of what handle_request_str returned: one response dictionary or an
\* array of them
RECURSIVE JoinResponses(_)
JoinResponses(items) ==
    IF Len(items) = 0 THEN <<>>
    ELSE IF Len(items) = 1 THEN <<items[1]>>
    ELSE <<items[1], RPunct(",")>> \o JoinResponses(Tail(items))

jdumps(obj) ==
    IF obj.kind = "list"
    THEN <<RPunct("[")>> \o JoinResponses(obj.items) \o <<RPunct("]")>>
    ELSE obj.items

\* ------------------------------------------------------------------------
\* Registered methods (tests/utilities.py) and the registered instance

\* self.funcs: names given to register_function
funcs == {"s:sum", "s:fail", "s:namespace.sum"}

\* self.funcs[method]: register_function(summation, "sum"),
\* register_function(summation, "namespace.sum"), register_function(fail)
Registered(method) == IF method = "s:namespace.sum" THEN "s:sum" ELSE method

\* Attributes of the object given to register_instance, when there is one:
\* get_object, and namespace.sum (another function than the registered one)
InstanceAttrs == {"s:get_object", "s:namespace.sum"}

\* The attribute of the instance a dotted name leads to
Attribute(method) ==
    IF method = "s:get_object" THEN method ELSE "s:object.namespace.sum"

\* What the instance's own _dispatch may hand back that cannot be called
NotCallable == {"i:1"}

IsEmptyParams(params) == params \in {"[]", "{}"}

\* func(*params) or func(**params): `body` tells whether the function body
\* ran (an argument mismatch raises TypeError before it)
\*   summation(*args)  returns sum(args), a TypeError for a string argument
\*   fail()            raises ValueError
\*   get_object()      returns an object that has no JSON form, as do the
\*                     other methods of the instance
\*   a value that is no function raises TypeError when it is called
Call_without_binding(func, params) ==
    IF func = "s:sum" THEN [res |-> Returned("i:0"), body |-> TRUE]
    ELSE IF func = "s:fail" THEN [res |-> Raised("ValueError"), body |-> TRUE]
    ELSE [res |-> Returned("object"), body |-> TRUE]

Call(func, params) ==
    IF func \in NotCallable
    THEN [res |-> Raised("TypeError"), body |-> FALSE]
    ELSE IF func = "s:sum"
    THEN IF params = "[a]"
         THEN [res |-> Raised("TypeError"), body |-> TRUE]
         ELSE IF params = "[1,2]"
         THEN [res |-> Returned("i:3"), body |-> TRUE]
         ELSE IF IsEmptyParams(params)
         THEN [res |-> Returned("i:0"), body |-> TRUE]
         ELSE [res |-> Raised("TypeError"), body |-> FALSE]
    ELSE IF func = "s:fail"
    THEN IF IsEmptyParams(params)
         THEN [res |-> Raised("ValueError"), body |-> TRUE]
         ELSE [res |-> Raised("TypeError"), body |-> FALSE]
    ELSE IF IsEmptyParams(params)
         THEN [res |-> Returned("object"), body |-> TRUE]
         ELSE [res |-> Raised("TypeError"), body |-> FALSE]

\* The call as it is logged: which body ran, and how it ended
CallsOf(func, params) ==
    LET logged(o) ==
            IF o.body
            THEN <<[method |-> func, params |-> params,
                    ended |-> IF o.res.t = "raise" THEN o.res.exc
                              ELSE "return"]>>
            ELSE <<>>
    IN  logged(Call(func, params))

\* ------------------------------------------------------------------------
\* Dispatch engine (jsonrpclib.server_protocol)

get_version_never_none(request) ==
    IF request.jsonrpc # Absent THEN 2 ELSE 1

get_version(request) ==
    IF request.jsonrpc # Absent THEN 2
    ELSE IF request.id # Absent THEN 1
    ELSE 0

\* validate_request: a Fault, or the request with its default params
validate_request(request, json_config) ==
    IF request.kind # "dict"
    THEN [valid |-> FALSE, request |-> request,
          fault |-> Fault(-32600, "Request must be a dict", None,
                          json_config)]
    ELSE LET rpcid == IF request.id = Absent THEN None ELSE request.id
             version == get_version(request)
             defaulted == IF request.params = Absent
                          THEN [request EXCEPT !.params = "[]"]
                          ELSE request
             method == IF defaulted.method = Absent THEN None
                       ELSE defaulted.method
             params == defaulted.params
         IN  IF version = 0
             THEN [valid |-> FALSE, request |-> request,
                   fault |-> Fault(-32600, "Request invalid.", rpcid,
                                   json_config)]
             ELSE IF \/ ~Truthy(method)
                     \/ method \notin StringLits
                     \/ params \notin (ListLits \cup DictLits)
             THEN [valid |-> FALSE, request |-> defaulted,
                   fault |-> Fault(-32600,
                                   "Invalid request parameters or method.",
                                   rpcid, json_config)]
             ELSE [valid |-> TRUE, request |-> defaulted,
                   fault |-> Fault(0, "", None, 0)]

\* make_fault: a Fault without request id
make_fault(code, message, config) == Fault(code, message, None, config)

\* resolve_dotted_attribute(self.instance, method, True); None stands for
\* its AttributeError
resolve_dotted_attribute(instance, method) ==
    IF instance # None /\ method \in InstanceAttrs
    THEN Attribute(method)
    ELSE None

\* getattr(self.instance, "_dispatch")(method, params): an instance without
\* _dispatch ("object") gives AttributeError; a "dispatcher" follows the
\* convention of xmlrpc.server (it runs the method and returns its result,
\* and raises Exception for a method it does not know); a "resolver" returns
\* the function to call and raises AttributeError for a name it does not know
instance__dispatch(instance, method) ==
    IF instance = "dispatcher"
    THEN IF method = "s:echo" THEN Returned("i:1") ELSE Raised("Exception")
    ELSE IF instance = "resolver"
    THEN IF method = "s:echo" THEN Returned("s:object.echo")
         ELSE Raised("AttributeError")
    ELSE Raised("AttributeError")

\* _resolve_method let an exception out
ExceptionRaised == "raise:Exception"

\* _resolve_method: the function to call, or None
_resolve_method_any_name(instance, method) ==
    IF method \in funcs THEN Registered(method)
    ELSE IF instance # None THEN method
    ELSE None

_resolve_method(instance, method) ==
    LET custom(found) ==
            IF found.t = "value" THEN found.value
            ELSE IF found.exc = "AttributeError"
            THEN resolve_dotted_attribute(instance, method)
            ELSE ExceptionRaised
    IN  IF method \in funcs THEN Registered(method)
        ELSE IF instance # None
        THEN custom(instance__dispatch(instance, method))
        ELSE None

\* _dispatch: the handler's result, or a Fault object (never raises)
_dispatch_all_invalid_params(instance, method, params, config) ==
    LET result(response) ==
            IF response.t = "raise"
            THEN ReturnedFault(make_fault(-32602, "Invalid parameters",
                                          config))
            ELSE response
        call(func) ==
            IF func = ExceptionRaised
            THEN [calls |-> <<>>, res |-> Raised("Exception")]
            ELSE IF func # None
            THEN [calls |-> CallsOf(func, params),
                  res |-> result(Call(func, params).res)]
            ELSE [calls |-> <<>>,
                  res |-> ReturnedFault(make_fault(-32601,
                              "Method not supported.", config))]
    IN  call(_resolve_method(instance, method))

_dispatch(instance, method, params, config) ==
    LET result(response) ==
            IF response.t = "raise"
            THEN IF response.exc = "TypeError"
                 THEN ReturnedFault(make_fault(-32602, "Invalid parameters",
                                               config))
                 ELSE ReturnedFault(make_fault(-32603, "Server error",
                                               config))
            ELSE response
        call(func) ==
            IF func = ExceptionRaised
            THEN [calls |-> <<>>, res |-> Raised("Exception")]
            ELSE IF func # None
            THEN [calls |-> CallsOf(func, params),
                  res |-> result(Call(func, params).res)]
            ELSE [calls |-> <<>>,
                  res |-> ReturnedFault(make_fault(-32601,
                              "Method not supported.", config))]
    IN  call(_resolve_method(instance, method))

\* A dispatch method supplied by the transport (the request handler's own
\* _dispatch): it looks the method up and calls it, and lets every error
\* out, a method it does not know included
custom_dispatch(instance, method, params) ==
    LET call(func) ==
            IF func = ExceptionRaised
            THEN [calls |-> <<>>, res |-> Raised("Exception")]
            ELSE IF func # None
            THEN [calls |-> CallsOf(func, params),
                  res |-> Call(func, params).res]
            ELSE [calls |-> <<>>, res |-> Raised("Exception")]
    IN  call(_resolve_method(instance, method))

\* The test "is this a notification" of _dispatch_caller_single
is_notification_absent_only(request) ==
    request.id = Absent

is_notification(request) ==
    request.id = Absent \/ request.id \in {None, "s:"}

\* The task handed to the notification pool: the callable and its arguments
Task(dispatch_method, method, params) ==
    [fn |-> IF dispatch_method # None THEN "dispatch_method" ELSE "_dispatch",
     method |-> method, params |-> params]

\* _dispatch_caller_single on a validated request: the response dictionary
\* (NoResponse for None), the handler bodies run inline, the tasks enqueued
_dispatch_caller_single(request, dispatch_method, pool, json_config, instance) ==
    LET method == request.method
        params == request.params
        config == IF request.jsonrpc = Absent /\ json_config >= 2
                  THEN 1 ELSE json_config
        server_error(exc) == Fault_dump(Fault(-32603, exc, None, config))
        encoded(dumped) ==
            IF dumped.raised THEN server_error(dumped.exc) ELSE dumped.resp
        answer(response) ==
            IF response.t = "raise" THEN server_error(response.exc)
            ELSE IF is_notification(request) THEN NoResponse
            ELSE encoded(dump(response, request.id, config))
        inline(called) ==
            [resp |-> answer(called.res), calls |-> called.calls,
             tasks |-> <<>>]
    IN  IF is_notification(request) /\ pool # None
        THEN [resp |-> NoResponse, calls |-> <<>>,
              tasks |-> <<Task(dispatch_method, method, params)>>]
        ELSE inline(IF dispatch_method # None
                    THEN custom_dispatch(instance, method, params)
                    ELSE _dispatch(instance, method, params, config))

\* _handle_single_call: validation, then the call
_handle_single_call(request, dispatch_method, pool, json_config, instance) ==
    LET call(result) ==
            IF ~result.valid
            THEN [resp |-> Fault_dump(result.fault), calls |-> <<>>,
                  tasks |-> <<>>]
            ELSE _dispatch_caller_single(result.request, dispatch_method,
                                         pool, json_config, instance)
    IN  call(validate_request(request, json_config))

\* Tags every element of a log with the index of the batch entry it is for
Tagged(log, idx) ==
    [k \in 1..Len(log) |-> [idx |-> idx, item |-> log[k]]]

RECURSIVE Flatten(_, _)
Flatten(logs, idx) ==
    IF idx > Len(logs) THEN <<>>
    ELSE Tagged(logs[idx], idx) \o Flatten(logs, idx + 1)

\* The responses list of a batch: the outcomes that are not None, in order
RECURSIVE Responses(_)
Responses(outcomes) ==
    IF Len(outcomes) = 0 THEN <<>>
    ELSE IF Head(outcomes) # NoResponse
    THEN <<Head(outcomes)>> \o Responses(Tail(outcomes))
    ELSE Responses(Tail(outcomes))

\* What a dispatch returns
ResultNone == [kind |-> "none", items |-> <<>>]
ResultOne(resp) ==
    IF resp = NoResponse THEN ResultNone
    ELSE [kind |-> "single", items |-> <<resp>>]
ResultList(responses) == [kind |-> "list", items |-> responses]

\* End of the batch branch of handle_request_dict: NoMulticallResult is
\* raised when no entry gave a response, else the responses are returned
multicall_result_empty_list(responses) ==
    [raised |-> FALSE, result |-> ResultList(responses)]

multicall_result(responses) ==
    IF Len(responses) = 0
    THEN [raised |-> TRUE, result |-> ResultNone]
    ELSE [raised |-> FALSE, result |-> ResultList(responses)]

\* handle_request_dict: the result (or NoMulticallResult raised), with the
\* outcome of every entry (NoResponse for None), the handler bodies run
\* inline and the tasks enqueued
handle_request_dict(request, dispatch_method, pool, json_config, instance) ==
    LET batch(outcomes, ended) ==
            [raised |-> ended.raised, result |-> ended.result,
             outcomes |-> outcomes]
        single(outcomes) ==
            [raised |-> FALSE, result |-> ResultOne(outcomes[1]),
             outcomes |-> outcomes]
        results(outcomes) ==
            IF request.kind = "list"
            THEN batch(outcomes, multicall_result(Responses(outcomes)))
            ELSE single(outcomes)
        collected(each) ==
            [ret |-> results([i \in 1..Len(each) |-> each[i].resp]),
             calls |-> Flatten([i \in 1..Len(each) |-> each[i].calls], 1),
             tasks |-> Flatten([i \in 1..Len(each) |-> each[i].tasks], 1)]
        handled(all) ==
            [raised |-> all.ret.raised, result |-> all.ret.result,
             outcomes |-> all.ret.outcomes, calls |-> all.calls,
             tasks |-> all.tasks]
    IN  IF ~ValueTruthy(request)
        THEN [raised |-> FALSE,
              result |-> ResultOne(Fault_dump(make_fault(-32600,
                             "Request invalid -- no request data.",
                             json_config))),
              outcomes |-> <<>>, calls |-> <<>>, tasks |-> <<>>]
        ELSE handled(collected(
                 [i \in 1..Len(request.items) |->
                     _handle_single_call(request.items[i], dispatch_method,
                                         pool, json_config, instance)]))

\* handle_request_str: a -32700 Fault for a text that does not parse, None
\* when the batch had no result
handle_request_str(json_str, dispatch_method, pool, json_config, instance) ==
    LET returned(handled) ==
            [result |-> IF handled.raised THEN ResultNone
                        ELSE handled.result,
             outcomes |-> handled.outcomes, calls |-> handled.calls,
             tasks |-> handled.tasks]
        handle(request) ==
            IF request.error
            THEN [result |-> ResultOne(Fault_dump(make_fault(-32700,
                                 "Request invalid.", json_config))),
                  outcomes |-> <<>>, calls |-> <<>>, tasks |-> <<>>]
            ELSE returned(handle_request_dict(request.value,
                              dispatch_method, pool, json_config, instance))
    IN  handle(loads(json_str))

\* marshaled_dispatch: the response text, or no body at all
NoBody == [none |-> TRUE, text |-> <<>>]
Body(text) == [none |-> FALSE, text |-> text]

marshaled_dispatch(data, dispatch_method, pool, json_config, instance) ==
    LET marshaled(result) ==
            [handled |-> result,
             body |-> IF result.result = ResultNone THEN NoBody
                      ELSE Body(jdumps(result.result))]
    IN  marshaled(handle_request_str(data, dispatch_method, pool,
                                     json_config, instance))

\* ------------------------------------------------------------------------
\* The asynchronous protocol handler (server_protocol_async.py 59-321)

\* ensure_async(func), then `await func_async(*params)` (or **params): the
\* function is called when the coroutine is awaited, an argument mismatch
\* raises its TypeError there
ensure_async(func, params) == Call(func, params)

\* AsyncJsonRpcProtocolHandler._dispatch: the handler's result, or a Fault
Async__dispatch(instance, method, params, config) ==
    LET result(response) ==
            IF response.t = "raise"
            THEN IF response.exc = "TypeError"
                 THEN ReturnedFault(make_fault(-32602, "Invalid parameters",
                                               config))
                 ELSE ReturnedFault(make_fault(-32603, "Server error",
                                               config))
            ELSE response
        call(func) ==
            IF func = ExceptionRaised
            THEN [calls |-> <<>>, res |-> Raised("Exception")]
            ELSE IF func # None
            THEN [calls |-> CallsOf(func, params),
                  res |-> result(ensure_async(func, params).res)]
            ELSE [calls |-> <<>>,
                  res |-> ReturnedFault(make_fault(-32601,
                              "Method not supported.", config))]
    IN  call(_resolve_method(instance, method))

\* The variant of _dispatch_caller_single that answers every request
Async__dispatch_caller_single_answering_all(request, dispatch_method, json_config, instance) ==
    LET config == IF request.jsonrpc = Absent /\ json_config >= 2
                  THEN 1 ELSE json_config
        server_error(exc) == Fault_dump(Fault(-32603, exc, None, config))
        encoded(dumped) ==
            IF dumped.raised THEN server_error(dumped.exc) ELSE dumped.resp
        answer(response) ==
            IF response.t = "raise" THEN server_error(response.exc)
            ELSE encoded(dump(response, request.id, config))
        inline(called) ==
            [resp |-> answer(called.res), calls |-> called.calls]
    IN  inline(IF dispatch_method # None
               THEN custom_dispatch(instance, request.method, request.params)
               ELSE Async__dispatch(instance, request.method, request.params,
                                    config))

\* AsyncJsonRpcProtocolHandler._dispatch_caller_single: the method is always
\* awaited inline (there is no notification pool); the dispatch method, when
\* one is given, is a coroutine function
Async__dispatch_caller_single(request, dispatch_method, json_config, instance) ==
    LET method == request.method
        params == request.params
        config == IF request.jsonrpc = Absent /\ json_config >= 2
                  THEN 1 ELSE json_config
        server_error(exc) ==
            Fault_dump(make_fault(-32603, exc, config))
        encoded(dumped) ==
            IF dumped.raised THEN server_error(dumped.exc) ELSE dumped.resp
        answer(response) ==
            IF response.t = "raise" THEN server_error(response.exc)
            ELSE IF is_notification(request) THEN NoResponse
            ELSE encoded(dump(response, request.id, config))
        inline(called) ==
            [resp |-> answer(called.res), calls |-> called.calls]
    IN  inline(IF dispatch_method # None
               THEN custom_dispatch(instance, method, params)
               ELSE Async__dispatch(instance, method, params, config))

\* AsyncJsonRpcProtocolHandler._handle_single_call
Async__handle_single_call(request, dispatch_method, json_config, instance) ==
    LET call(result) ==
            IF ~result.valid
            THEN [resp |-> Fault_dump(result.fault), calls |-> <<>>]
            ELSE Async__dispatch_caller_single(result.request,
                     dispatch_method, json_config, instance)
    IN  call(validate_request(request, json_config))

\* AsyncJsonRpcProtocolHandler.handle_request_dict: the entries of a batch
\* are awaited one after the other
Async_handle_request_dict(request, dispatch_method, json_config, instance) ==
    LET batch(outcomes, ended) ==
            [raised |-> ended.raised, result |-> ended.result,
             outcomes |-> outcomes]
        single(outcomes) ==
            [raised |-> FALSE, result |-> ResultOne(outcomes[1]),
             outcomes |-> outcomes]
        results(outcomes) ==
            IF request.kind = "list"
            THEN batch(outcomes, multicall_result(Responses(outcomes)))
            ELSE single(outcomes)
        collected(each) ==
            [ret |-> results([i \in 1..Len(each) |-> each[i].resp]),
             calls |-> Flatten([i \in 1..Len(each) |-> each[i].calls], 1)]
        handled(all) ==
            [raised |-> all.ret.raised, result |-> all.ret.result,
             outcomes |-> all.ret.outcomes, calls |-> all.calls]
    IN  IF ~ValueTruthy(request)
        THEN [raised |-> FALSE,
              result |-> ResultOne(Fault_dump(make_fault(-32600,
                             "Request invalid -- no request data.",
                             json_config))),
              outcomes |-> <<>>, calls |-> <<>>]
        ELSE handled(collected(
                 [i \in 1..Len(request.items) |->
                     Async__handle_single_call(request.items[i],
                         dispatch_method, json_config, instance)]))

\* AsyncJsonRpcProtocolHandler.handle_request_str
Async_handle_request_str(text, dispatch_method, json_config, instance) ==
    LET returned(handled) ==
            [result |-> IF handled.raised THEN ResultNone
                        ELSE handled.result,
             outcomes |-> handled.outcomes, calls |-> handled.calls]
        handle(request) ==
            IF request.error
            THEN [result |-> ResultOne(Fault_dump(make_fault(-32700,
                                 "Request invalid.", json_config))),
                  outcomes |-> <<>>, calls |-> <<>>]
            ELSE returned(Async_handle_request_dict(request.value,
                              dispatch_method, json_config, instance))
    IN  handle(loads(text))

\* ------------------------------------------------------------------------
\* Requests the transport may deliver

IdValues == {Absent, None, "i:0", "s:", "s:1"}

\* <<method, params>> of the request objects
MethodParams ==
    {<<"s:sum", Absent>>, <<"s:sum", "[1,2]">>, <<"s:sum", "[a]">>,
     <<"s:sum", "{a:1}">>, <<"s:fail", Absent>>, <<"s:fail", "[1,2]">>,
     <<"s:get_object", Absent>>, <<"s:foobar", Absent>>,
     <<Absent, Absent>>, <<"s:", Absent>>, <<"i:1", Absent>>,
     <<"i:1", "s:bar">>, <<"s:sum", "s:bar">>, <<"s:sum", None>>}

RequestObjects ==
    {Dict(j, i, c[1], c[2], Absent) :
        j \in {Absent, "s:2.0"}, i \in IdValues, c \in MethodParams}
    \cup {Dict(Absent, Absent, Absent, Absent, "s:boo")}

Atoms == {Atom(l) : l \in {None, "i:0", "i:1", "s:x"}}

\* Entries the batches are made of
BatchEntries ==
    {Dict("s:2.0", "s:1", "s:sum", "[1,2]", Absent),
     Dict(Absent, "i:0", "s:sum", Absent, Absent),
     Dict("s:2.0", Absent, "s:sum", "[1,2]", Absent),
     Dict(Absent, None, "s:sum", Absent, Absent),
     Dict("s:2.0", "s:", "s:sum", Absent, Absent),
     Dict("s:2.0", "s:1", "s:fail", Absent, Absent),
     Dict("s:2.0", Absent, "s:fail", Absent, Absent),
     Dict("s:2.0", "i:0", "s:foobar", Absent, Absent),
     Dict("s:2.0", Absent, "i:1", "s:bar", Absent),
     Dict("s:2.0", "s:1", "s:get_object", Absent, Absent),
     Dict(Absent, Absent, Absent, Absent, "s:boo"),
     Atom("i:1")}

SeqsUpTo(S, n) == UNION {[1..k -> S] : k \in 0..n}

RequestValues ==
    {SingleValue(e) : e \in RequestObjects \cup Atoms}
    \cup {ListValue(items) : items \in SeqsUpTo(BatchEntries, MaxBatch)}

\* Longest text made of arbitrary tokens
MaxTextLen == 3

TokenTexts ==
    SeqsUpTo({LBracket, RBracket, Comma, Broken,
              Dict("s:2.0", "s:1", "s:sum", "[1,2]", Absent)}, MaxTextLen)

\* A batch cut in the middle of its second entry
TruncatedBatch ==
    <<LBracket, Dict("s:2.0", "s:1", "s:sum", "[1,2]", Absent), Comma,
      Broken, RBracket>>

RequestTexts ==
    {TextOf(v) : v \in RequestValues} \cup TokenTexts \cup {TruncatedBatch}

\* ------------------------------------------------------------------------
\* Threads dispatching on the same handler (socketserver.ThreadingMixIn)

Threads == {"t1", "t2"}

\* A thread that handles no request: `config` names the Config object the
\* call uses, "json_config" for the handler's own
IdleThread ==
    [pc |-> "idle", request |-> Dict(Absent, Absent, Absent, Absent, Absent),
     config |-> "json_config", response |-> NoResponse]

\* No thread holds a copy of the configuration
NoCopy == [t \in Threads |-> 0]

\* ------------------------------------------------------------------------
\* Calls of the client-side codec (jsonrpclib.client_protocol)

\* No function of the codec has been called yet
NoCall == [fn |-> "none"]

\* The CGI handler was not called
NothingWritten == [called |-> FALSE]

\* No aiohttp server has been made
NoServer == [pc |-> "none"]

\* No request text was given to the two handlers
NoRequest == [given |-> FALSE]

\* _dispatch has not been called
NoDispatch == [method |-> ""]

\* No thread pool has been made
NoPool == [state |-> "none"]

\* No block has ended yet
NoBlockEnded == [how |-> "", before |-> <<>>, after |-> <<>>]

\* AbstractTransport.__init__: self.additional_headers = []; no proxy has been
\* built on the transport, no `with` block is open, no exception is in flight
AbstractTransport ==
    [constructed |-> FALSE, additional_headers |-> <<>>, blocks |-> <<>>,
     raising |-> "", ended |-> NoBlockEnded]

\* ------------------------------------------------------------------------
\* State

VARIABLES
    pc,                 \* "idle", or "replying" once a request is handled
    json_config,        \* self.json_config.version
    notification_pool,  \* self.__notification_pool: None or "pool"
    dispatch_method,    \* the transport's dispatch method: None or "custom"
    instance,           \* self.instance: None or "object"
    json_str,           \* text of the request being answered
    result,             \* what handle_request_str returned for it
    body,               \* what marshaled_dispatch returned for it
    outcomes,           \* outcome of each entry of the request
    calls,              \* handler bodies run by the dispatching thread
    enqueued,           \* tasks the request handed to the pool
    queue,              \* tasks waiting in the notification pool
    heap,               \* version of the Config copy made for each thread
    threads,            \* position of each thread in _dispatch_caller_single
    client,             \* the last call of the client-side codec
    transport,          \* the client transport's additional headers
    request_pool,       \* the pooled server's thread pool (self.__request_pool)
    resolution,         \* the last call of the handler's _dispatch
    awaited,            \* what the two handlers returned for a request text
    stdout,             \* what the CGI handler wrote for a request text
    site                \* the aiohttp server: its stop event, port and run()

vars == <<pc, json_config, notification_pool, dispatch_method, instance,
          json_str, result, body, outcomes, calls, enqueued, queue,
          heap, threads, client, transport, request_pool, resolution,
          awaited, stdout, site>>

\* The parts of the library outside the protocol engine and the codec
beyond == <<transport, request_pool, resolution, awaited, stdout, site>>

\* The protocol engine and the client-side codec
core == <<pc, json_config, notification_pool, dispatch_method, instance,
          json_str, result, body, outcomes, calls, enqueued, queue,
          heap, threads, client>>

\* What the transport and the pool leave alone
elsewhere == <<heap, threads, client, beyond>>

setup == <<json_config, dispatch_method, instance>>
answer == <<json_str, result, body, outcomes, calls, enqueued>>

\* The state after construction, but for the dispatch method the transport
\* gives and the registered instance
Constructed ==
    /\ pc = "idle"
    /\ json_config = 2
    /\ notification_pool = None
    /\ json_str = <<>>
    /\ result = ResultNone
    /\ body = NoBody
    /\ outcomes = <<>>
    /\ calls = <<>>
    /\ enqueued = <<>>
    /\ queue = <<>>
    /\ heap = NoCopy
    /\ threads = [t \in Threads |-> IdleThread]
    /\ client = NoCall
    /\ transport = AbstractTransport
    /\ request_pool = NoPool
    /\ resolution = NoDispatch
    /\ awaited = NoRequest
    /\ stdout = NothingWritten
    /\ site = NoServer

Init ==
    /\ Constructed
    /\ dispatch_method \in {None, "custom"}
    /\ instance \in {None, "object"}

\* set_notification_pool(thread_pool)
set_notification_pool(thread_pool) ==
    /\ pc = "idle"
    /\ notification_pool # thread_pool
    /\ notification_pool' = thread_pool
    /\ UNCHANGED <<pc, setup, answer, queue, elsewhere>>

Untagged(log) == [k \in 1..Len(log) |-> log[k].item]

\* The transport hands one request text to marshaled_dispatch
HandleRequest(data) ==
    LET reply(done) ==
            /\ pc' = "replying"
            /\ json_str' = data
            /\ result' = done.handled.result
            /\ body' = done.body
            /\ outcomes' = done.handled.outcomes
            /\ calls' = done.handled.calls
            /\ enqueued' = done.handled.tasks
            /\ queue' = queue \o Untagged(done.handled.tasks)
    IN  /\ pc = "idle"
        /\ Len(queue) <= MaxBacklog
        /\ reply(marshaled_dispatch(data, dispatch_method,
                                    notification_pool, json_config, instance))
        /\ UNCHANGED <<setup, notification_pool, elsewhere>>

\* The transport has written the reply and waits for the next request
SendResponse ==
    /\ pc = "replying"
    /\ pc' = "idle"
    /\ json_str' = <<>>
    /\ result' = ResultNone
    /\ body' = NoBody
    /\ outcomes' = <<>>
    /\ calls' = <<>>
    /\ enqueued' = <<>>
    /\ UNCHANGED <<setup, notification_pool, queue, elsewhere>>

\* A pool worker takes the oldest task and runs it; what the task returns
\* or raises is logged by the worker and goes nowhere else
RunTask ==
    /\ queue # <<>>
    /\ queue' = Tail(queue)
    /\ UNCHANGED <<pc, setup, notification_pool, answer, elsewhere>>

Next ==
    \/ \E thread_pool \in {None, "pool"} : set_notification_pool(thread_pool)
    \/ \E data \in RequestTexts : HandleRequest(data)
    \/ SendResponse
    \/ RunTask

Spec == Init /\ [][Next]_vars

\* ------------------------------------------------------------------------
\* Vocabulary of the properties

\* A request has been handled and its reply is not sent yet
Handled == pc = "replying"

\* The decoded request and its entries (one entry for a single request)
Parsed == loads(json_str)
Entries == Parsed.value.items
IsBatch == Parsed.value.kind = "list"

\* Every entry went through _handle_single_call
Dispatched ==
    /\ Handled
    /\ ~Parsed.error
    /\ Len(Entries) > 0
    /\ Len(outcomes) = Len(Entries)

\* A request object of the shape JSON-RPC asks for: an object with a version
\* (jsonrpc or id key), a non-empty string as method, and an array or an
\* object as params when it has params
WellShaped(e) ==
    /\ e.kind = "dict"
    /\ e.jsonrpc # Absent \/ e.id # Absent
    /\ e.method \in StringLits \ {"s:"}
    /\ e.params \in {Absent} \cup ListLits \cup DictLits

\* Notification: a well-shaped request whose id is absent or null
NullId(e) == e.id \in {Absent, None}
Notification(e) == WellShaped(e) /\ NullId(e)

\* The response is a Fault with this code
IsFault(resp, code) ==
    /\ resp.kind = "response"
    /\ resp.error = "{error}"
    /\ resp.code = code
    /\ resp.result \in {Absent, None}

\* The handler bodies run inline, and the tasks enqueued, for entry i
CallsFor(i) == SelectSeq(calls, LAMBDA c : c.idx = i)
TasksFor(i) == SelectSeq(enqueued, LAMBDA c : c.idx = i)

\* A text is well-formed JSON: one value, or values separated by commas
\* between brackets
WellFormed(text) ==
    LET n == Len(text)
    IN  \/ n = 1 /\ IsValueToken(text[1])
        \/ /\ n >= 2
           /\ text[1] = LBracket
           /\ text[n] = RBracket
           /\ n = 2 \/ n % 2 = 1
           /\ \A k \in 2..(n - 1) :
                 IF k % 2 = 0 THEN IsValueToken(text[k]) ELSE text[k] = Comma

\* ------------------------------------------------------------------------
\* C1: a request whose id is absent or null gets no response: None when it
\* is handled alone, no element when it is an entry of a batch, with or
\* without a notification pool (stated for the requests that validation
\* accepts).
C1_NotificationNoResponse ==
    Dispatched =>
        \A i \in 1..Len(Entries) :
            Notification(Entries[i]) =>
                /\ outcomes[i] = NoResponse
                /\ ~IsBatch => result = ResultNone

\* C2: the response to a batch holds exactly the responses of the entries
\* that are not notifications, in the order of those entries, and nothing
\* for the notifications (stated for the non-empty batches in which no id
\* is the empty string).
RECURSIVE OutcomesOfCalls(_, _)
OutcomesOfCalls(entries, outs) ==
    IF Len(entries) = 0 THEN <<>>
    ELSE IF Notification(Head(entries))
    THEN OutcomesOfCalls(Tail(entries), Tail(outs))
    ELSE <<Head(outs)>> \o OutcomesOfCalls(Tail(entries), Tail(outs))

C2_BatchResponsesInOrder ==
    (Dispatched /\ IsBatch
        /\ \A i \in 1..Len(Entries) : Entries[i].id # "s:") =>
        /\ result.items = OutcomesOfCalls(Entries, outcomes)
        /\ \A k \in 1..Len(result.items) : result.items[k] # NoResponse

\* C3: when no entry of a non-empty batch gives a response, the dispatch
\* returns None and marshaled_dispatch gives no body, never the text "[]".
C3_EmptyBatchOutcomeNoBody ==
    (Dispatched /\ IsBatch
        /\ \A i \in 1..Len(Entries) : outcomes[i] = NoResponse) =>
        /\ result = ResultNone
        /\ body = NoBody

C3_Witness ==
    /\ Dispatched /\ IsBatch
    /\ Len(Entries) = MaxBatch
    /\ \A i \in 1..Len(Entries) : outcomes[i] = NoResponse
    /\ body = NoBody

\* C4: every response given to a request with a non-null id carries that id.
C4_ResponseEchoesId ==
    Dispatched =>
        \A i \in 1..Len(Entries) :
            (/\ Entries[i].kind = "dict"
             /\ Entries[i].id \notin {Absent, None}
             /\ outcomes[i] # NoResponse) =>
                outcomes[i].id = Entries[i].id

\* A handler body that ran inline for entry i and ended with an error
RaisedFor(i, errors) ==
    \E k \in 1..Len(calls) :
        calls[k].idx = i /\ calls[k].item.ended \in errors

\* C5 as stated: when the handler of a call (id neither absent nor null)
\* raises any error, the engine answers with one Fault -32603.
C5_AnyErrorIsServerError ==
    Dispatched =>
        \A i \in 1..Len(Entries) :
            (/\ WellShaped(Entries[i])
             /\ ~NullId(Entries[i])
             /\ RaisedFor(i, {"ValueError", "TypeError"})) =>
                IsFault(outcomes[i], -32603)

\* C5 amended: when the handler of a call whose id is neither absent, null
\* nor the empty string raises an error other than TypeError, the engine
\* answers with one Fault -32603, alone or at the call's place in the batch.
C5_ErrorIsServerError ==
    Dispatched =>
        \A i \in 1..Len(Entries) :
            (/\ WellShaped(Entries[i])
             /\ Entries[i].id \notin {Absent, None, "s:"}
             /\ RaisedFor(i, {"ValueError"})) =>
                /\ IsFault(outcomes[i], -32603)
                /\ ~IsBatch => result = ResultOne(outcomes[i])
                /\ IsBatch => \E k \in 1..Len(result.items) :
                                 result.items[k] = outcomes[i]

C5_Witness ==
    /\ Dispatched
    /\ IsBatch
    /\ \E i \in 1..Len(Entries) :
          /\ Entries[i].id = "s:1"
          /\ RaisedFor(i, {"ValueError"})
          /\ IsFault(outcomes[i], -32603)

\* C6: with a notification pool, a valid notification is enqueued exactly
\* once at the tail of the pool's queue, its handler is not run by the
\* dispatching thread, and it gets no response; the reply is ready while
\* the task still waits, and a worker running a task changes no reply.
C6_NotificationGoesToPool ==
    [][/\ (pc = "idle" /\ pc' = "replying" /\ notification_pool # None) =>
           LET parsed == loads(json_str')
               entries == parsed.value.items
           IN  (~parsed.error /\ Len(outcomes') = Len(entries)) =>
                   /\ \A i \in 1..Len(entries) :
                         Notification(entries[i]) =>
                           /\ Len(SelectSeq(enqueued',
                                            LAMBDA c : c.idx = i)) = 1
                           /\ \E k \in 1..Len(enqueued') :
                                 /\ enqueued'[k].idx = i
                                 /\ enqueued'[k].item.method
                                        = entries[i].method
                           /\ Len(SelectSeq(calls',
                                            LAMBDA c : c.idx = i)) = 0
                           /\ outcomes'[i] = NoResponse
                   /\ Len(queue') = Len(queue) + Len(enqueued')
                   /\ \A k \in 1..Len(enqueued') :
                         queue'[Len(queue) + k] = enqueued'[k].item
       /\ (pc' = pc /\ queue # <<>> /\ queue' = Tail(queue)) =>
           (result' = result /\ body' = body /\ outcomes' = outcomes)
      ]_vars

\* The reply to a batch of two notifications is ready, without a response,
\* while both tasks wait in the pool, the one of fail() last
C6_Witness ==
    /\ Handled
    /\ notification_pool # None
    /\ json_str = TextOf(ListValue(
           <<Dict("s:2.0", Absent, "s:sum", "[1,2]", Absent),
             Dict("s:2.0", Absent, "s:fail", Absent, Absent)>>))
    /\ result = ResultNone
    /\ calls = <<>>
    /\ Len(enqueued) = 2
    /\ Len(queue) = 2
    /\ queue[2].method = "s:fail"

\* C7 as stated: a text that is not well-formed JSON gets the single Fault
\* -32700 with id null, and no method is invoked.
ParseErrorReply ==
    /\ result.kind = "single"
    /\ IsFault(result.items[1], -32700)
    /\ result.items[1].id = None
    /\ calls = <<>>
    /\ enqueued = <<>>

C7_MalformedIsParseError ==
    (Handled /\ ~WellFormed(json_str)) => ParseErrorReply

\* C7 amended: a non-empty text that is not well-formed JSON gets the
\* single Fault -32700 with id null, and no method is invoked.
C7_NonEmptyMalformedIsParseError ==
    (Handled /\ json_str # <<>> /\ ~WellFormed(json_str)) => ParseErrorReply

C7_Witness ==
    /\ Handled
    /\ json_str = TruncatedBatch
    /\ ParseErrorReply

\* The method is neither registered nor an attribute of the instance
Unknown(method) ==
    /\ method \notin funcs
    /\ instance = None \/ method \notin InstanceAttrs

C9_InvalidRequestRejected ==
    (Handled /\ ~Parsed.error) =>
        IF Len(outcomes) = Len(Entries)
        THEN \A i \in 1..Len(Entries) :
                ~WellShaped(Entries[i]) =>
                    /\ IsFault(outcomes[i], -32600)
                    /\ Len(CallsFor(i)) = 0
                    /\ Len(TasksFor(i)) = 0
        ELSE (~IsBatch /\ ~WellShaped(Entries[1])) =>
                /\ result.kind = "single"
                /\ IsFault(result.items[1], -32600)
                /\ calls = <<>>
                /\ enqueued = <<>>

\* A batch whose second entry has a number as method and a string as params
C9_Witness ==
    /\ Dispatched /\ IsBatch
    /\ Len(Entries) = 2
    /\ WellShaped(Entries[1])
    /\ Entries[2].kind = "dict" /\ Entries[2].method = "i:1"
    /\ IsFault(outcomes[2], -32600)
    /\ Len(CallsFor(2)) = 0

\* C10: an empty request (empty body, null, [] or {}) gets the single Fault
\* -32600 with id null and never "no content"; a batch of notifications
\* never ends that way.
EmptyRequest ==
    \/ json_str = <<>>
    \/ json_str = <<Atom(None)>>
    \/ json_str = <<LBracket, RBracket>>
    \/ json_str = <<Dict(Absent, Absent, Absent, Absent, Absent)>>

NoRequestDataReply ==
    /\ result.kind = "single"
    /\ IsFault(result.items[1], -32600)
    /\ result.items[1].id = None
    /\ ~body.none

C10_EmptyRequestIsInvalid ==
    /\ (Handled /\ EmptyRequest) => NoRequestDataReply
    /\ (Dispatched /\ IsBatch
            /\ \A i \in 1..Len(Entries) : Notification(Entries[i])) =>
          ~NoRequestDataReply

C10_Witness ==
    /\ Handled
    /\ json_str = <<LBracket, RBracket>>
    /\ NoRequestDataReply

\* ------------------------------------------------------------------------
\* Shapes of the responses

\* A V1 response has the result and the error key and no jsonrpc key; a V2
\* response has the jsonrpc key and one of the result and error keys
V1Shaped(resp) ==
    /\ resp.jsonrpc = Absent
    /\ resp.result # Absent
    /\ resp.error # Absent

V2Shaped(resp) ==
    /\ resp.jsonrpc = "s:2.0"
    /\ (resp.result = Absent) # (resp.error = Absent)

\* C11: on a server configured with version 2, the response to a request
\* object without jsonrpc key is V1-shaped and the response to a request
\* object with the jsonrpc key is V2-shaped, alone or entry by entry in a
\* batch (stated for the request objects that have a version: a jsonrpc
\* key or an id key).
C11_ResponseShapeFollowsRequest ==
    (Dispatched /\ json_config = 2) =>
        \A i \in 1..Len(Entries) :
            (/\ Entries[i].kind = "dict"
             /\ Entries[i].jsonrpc # Absent \/ Entries[i].id # Absent
             /\ outcomes[i] # NoResponse) =>
                IF Entries[i].jsonrpc = Absent
                THEN V1Shaped(outcomes[i])
                ELSE V2Shaped(outcomes[i])

\* ------------------------------------------------------------------------
\* Concurrent dispatches on one handler: the request-specific configuration
\* of _dispatch_caller_single

\* Version held by a Config object: the handler's own json_config, or the
\* copy of a thread
VersionOf(config) ==
    IF config = "json_config" THEN json_config ELSE heap[config]

\* Config.copy(): a new Config object, made for thread t, with the version
\* of the copied one
Config_copy_same_object(config, t) ==
    [heap |-> heap, config |-> config]

Config_copy(config, t) ==
    [heap |-> [heap EXCEPT ![t] = VersionOf(config)], config |-> t]

\* Validated calls the threads work on
ThreadRequests ==
    {Dict(j, i, "s:sum", "[1,2]", Absent) :
        j \in {Absent, "s:2.0"}, i \in {"i:0", "s:1"}}

\* A thread enters _dispatch_caller_single with a validated request
EnterDispatch(t, request) ==
    /\ threads[t].pc = "idle"
    /\ threads' = [threads EXCEPT ![t] =
                      [IdleThread EXCEPT !.pc = "entered",
                                         !.request = request]]
    /\ UNCHANGED <<pc, setup, notification_pool, answer, queue, heap, client, beyond>>

\* `if "jsonrpc" not in request and self.json_config.version >= 2`:
\* config = self.json_config.copy(), else config = self.json_config
ChooseConfig(t) ==
    LET copied(new) ==
            /\ heap' = new.heap
            /\ threads' = [threads EXCEPT ![t].pc = "copied",
                                          ![t].config = new.config]
    IN  /\ threads[t].pc = "entered"
        /\ IF threads[t].request.jsonrpc = Absent /\ json_config >= 2
           THEN copied(Config_copy("json_config", t))
           ELSE /\ threads' = [threads EXCEPT ![t].pc = "configured"]
                /\ UNCHANGED heap
        /\ UNCHANGED <<pc, setup, notification_pool, answer, queue, client, beyond>>

\* config.version = 1.0, on the object `config` names
SetVersion(t) ==
    /\ threads[t].pc = "copied"
    /\ threads' = [threads EXCEPT ![t].pc = "configured"]
    /\ IF threads[t].config = "json_config"
       THEN /\ json_config' = 1
            /\ UNCHANGED heap
       ELSE /\ heap' = [heap EXCEPT ![threads[t].config] = 1]
            /\ UNCHANGED json_config
    /\ UNCHANGED <<pc, dispatch_method, instance, notification_pool, answer,
                   queue, client, beyond>>

\* The method is called and its result encoded with the version `config`
\* has at that time
Respond(t) ==
    LET request == threads[t].request
        version == VersionOf(threads[t].config)
        encoded(called) == dump(called.res, request.id, version).resp
    IN  /\ threads[t].pc = "configured"
        /\ threads' = [threads EXCEPT
               ![t].pc = "responded",
               ![t].response = encoded(_dispatch(None, request.method,
                                                 request.params, version))]
        /\ UNCHANGED <<pc, setup, notification_pool, answer, queue, heap,
                       client, beyond>>

\* The response is returned; the copy of the configuration is dropped
LeaveDispatch(t) ==
    /\ threads[t].pc = "responded"
    /\ threads' = [threads EXCEPT ![t] = IdleThread]
    /\ heap' = [heap EXCEPT ![t] = 0]
    /\ UNCHANGED <<pc, setup, notification_pool, answer, queue, client, beyond>>

InitThreads ==
    /\ Init
    /\ dispatch_method = None
    /\ instance = None

NextThreads ==
    \/ \E t \in Threads, request \in ThreadRequests :
          EnterDispatch(t, request)
    \/ \E t \in Threads : ChooseConfig(t)
    \/ \E t \in Threads : SetVersion(t)
    \/ \E t \in Threads : Respond(t)
    \/ \E t \in Threads : LeaveDispatch(t)

SpecThreads == InitThreads /\ [][NextThreads]_vars

\* C12: whatever the interleaving of the dispatches, the handler's own
\* configuration keeps version 2 and every response to a request with the
\* jsonrpc key is V2-shaped, while the responses to the requests without
\* it are V1-shaped.
C12_ConfigurationUnchanged ==
    /\ json_config = 2
    /\ \A t \in Threads :
          threads[t].pc = "responded" =>
              IF threads[t].request.jsonrpc = Absent
              THEN V1Shaped(threads[t].response)
              ELSE V2Shaped(threads[t].response)

\* A thread has answered a request with the jsonrpc key while the other one
\* holds a configuration downgraded for a request without it
C12_Witness ==
    /\ threads["t1"].pc = "configured"
    /\ threads["t1"].request.jsonrpc = Absent
    /\ VersionOf(threads["t1"].config) = 1
    /\ threads["t2"].pc = "responded"
    /\ threads["t2"].request.jsonrpc # Absent
    /\ V2Shaped(threads["t2"].response)

\* ------------------------------------------------------------------------
\* Parameters and signatures

\* The params fit the signature of the handler: summation(*args) takes any
\* positional arguments and no keyword; fail() and get_object() take none
Fits(method, params) ==
    IF method = "s:sum" THEN params \in ListLits \cup {"{}", Absent}
    ELSE params \in {"[]", "{}", Absent}

Built(dict) == [raised |-> "", dict |-> dict]
Failed(exc) ==
    [raised |-> exc, dict |-> Dict(Absent, Absent, Absent, Absent, Absent)]

\* str(uuid.uuid4()): an id no caller supplied
uuid4 == "s:uuid"

\* Payload(rpcid=id, version=version).request(method, params)
Payload_request_always_params(id, version, method, params) ==
    IF method \notin StringLits THEN Failed("ValueError")
    ELSE Built(Dict(IF version >= 2 THEN "s:2.0" ELSE Absent,
               IF Truthy(id) THEN id ELSE uuid4, method,
               IF Truthy(params) THEN params ELSE "[]", Absent))

Payload_request(id, version, method, params) ==
    IF method \notin StringLits THEN Failed("ValueError")
    ELSE Built(Dict(IF version >= 2 THEN "s:2.0" ELSE Absent,
                    IF Truthy(id) THEN id ELSE uuid4,
                    method,
                    IF Truthy(params) \/ 10 * version < 11
                    THEN (IF Truthy(params) THEN params ELSE "[]")
                    ELSE Absent,
                    Absent))

\* Payload(rpcid=id, version=version).notify(method, params)
Payload_notify_keeping_id(id, version, method, params) ==
    Payload_request(id, version, method, params)

Payload_notify(id, version, method, params) ==
    LET without_id(request) ==
            IF request.raised # "" THEN request
            ELSE Built([request.dict EXCEPT
                           !.id = IF version >= 2 THEN Absent ELSE None])
    IN  without_id(Payload_request(id, version, method, params))

\* dump(params, methodname, rpcid, version, is_notify=is_notify): the
\* request or notification dictionary
dump_request(params, methodname, rpcid, version, is_notify) ==
    LET given == IF params = None THEN "[]" ELSE params
        payload(converted) ==
            IF is_notify
            THEN Payload_notify(rpcid, version, methodname, converted.value)
            ELSE Payload_request(rpcid, version, methodname, converted.value)
    IN  IF /\ methodname \in StringLits
           /\ given \notin (TupleLits \cup ListLits \cup DictLits)
        THEN Failed("TypeError")
        ELSE IF methodname \notin StringLits THEN Failed("ValueError")
        ELSE payload(jsonclass_dump(given))

\* json.dumps of a request dictionary: one object literal, in which a tuple
\* is written as an array
ArrayOf(params) ==
    IF params = "()" THEN "[]"
    ELSE IF params = "(1,2)" THEN "[1,2]"
    ELSE params

jdumps_request(request) ==
    <<[request EXCEPT !.params = ArrayOf(request.params)]>>

\* dumps(params, methodname, rpcid=rpcid, version=version, notify=notify):
\* the text of the request, or a raised error
dumps(params, methodname, rpcid, version, notify) ==
    LET written(request) ==
            [raised |-> request.raised,
             text |-> IF request.raised # "" THEN <<>>
                      ELSE jdumps_request(request.dict)]
    IN  written(dump_request(params, methodname, rpcid, version, notify))

\* ------------------------------------------------------------------------
\* Client side: the reply to a call (check_for_errors, ServerProxy._request)

\* A decoded reply. A dictionary has the keys that are not Absent; `error`
\* is "{code}" for an object with a "code" key (its entries are in `code`,
\* `message`, `data`), or any other literal
Reply(jsonrpc, value, error, code, message, data) ==
    [kind |-> "dict", lit |-> Absent, jsonrpc |-> jsonrpc,
     result |-> value, error |-> error, code |-> code,
     message |-> message, data |-> data]

\* A decoded reply that is not a dictionary (an array of replies is a
\* ListValue)
ReplyAtom(l) ==
    [kind |-> "atom", lit |-> l, jsonrpc |-> Absent, result |-> Absent,
     error |-> Absent, code |-> 0, message |-> Absent, data |-> Absent]

ReplyTruthy(reply) ==
    IF reply.kind = "atom" THEN Truthy(reply.lit)
    ELSE IF reply.kind = "list" THEN Len(reply.items) > 0
    ELSE \E key \in {reply.jsonrpc, reply.result, reply.error} :
            key # Absent

\* Error values without a "code" key: a dictionary of one entry, whose
\* value is then the argument of the error, and other values
OneEntry == {"{reason:boom}"}
ValueOfEntry(error) == "s:boom"

\* What check_for_errors and _request give: the value, or a raised error
\* with its arguments (`data` is Absent when the error carries none)
Passed(value) ==
    [exc |-> "", value |-> value, code |-> 0, message |-> Absent,
     data |-> Absent]
Throws(exc) ==
    [exc |-> exc, value |-> Absent, code |-> 0, message |-> Absent,
     data |-> Absent]
NoError == Passed(Absent)
ProtocolError(code, message) ==
    [exc |-> "ProtocolError", value |-> Absent, code |-> code,
     message |-> message, data |-> Absent]
AppError(code, message, data) ==
    [exc |-> "AppError", value |-> Absent, code |-> code,
     message |-> message, data |-> data]

\* The versions check_for_errors refuses: float(jsonrpc) > 2.0
Newer(jsonrpc) == jsonrpc = "s:3.0"

\* check_for_errors(result): NoError when the reply is returned as it is, or
\* the error raised
check_for_errors_all_protocol(reply) ==
    IF ~ReplyTruthy(reply) THEN NoError
    ELSE IF reply.kind # "dict" THEN Throws("TypeError")
    ELSE IF reply.jsonrpc # Absent /\ Newer(reply.jsonrpc)
    THEN Throws("NotImplementedError")
    ELSE IF reply.result = Absent /\ reply.error = Absent
    THEN Throws("ValueError")
    ELSE IF reply.error # Absent /\ Truthy(reply.error)
    THEN IF reply.error = "{code}"
         THEN ProtocolError(reply.code,
                            IF reply.message # Absent THEN reply.message
                            ELSE "s:<no error message>")
         ELSE IF reply.error = "s:code" THEN Throws("TypeError")
         ELSE IF reply.error \in OneEntry
         THEN ProtocolError(0, ValueOfEntry(reply.error))
         ELSE ProtocolError(0, reply.error)
    ELSE NoError

check_for_errors(reply) ==
    IF ~ReplyTruthy(reply) THEN NoError
    ELSE IF reply.kind # "dict" THEN Throws("TypeError")
    ELSE IF reply.jsonrpc # Absent /\ Newer(reply.jsonrpc)
    THEN Throws("NotImplementedError")
    ELSE IF reply.result = Absent /\ reply.error = Absent
    THEN Throws("ValueError")
    ELSE IF reply.error # Absent /\ Truthy(reply.error)
    THEN IF reply.error = "{code}"
         THEN IF -32700 <= reply.code /\ reply.code <= -32000
              THEN ProtocolError(reply.code,
                                 IF reply.message # Absent
                                 THEN reply.message
                                 ELSE "s:<no error message>")
              ELSE AppError(reply.code,
                            IF reply.message # Absent THEN reply.message
                            ELSE "s:<no error message>",
                            IF reply.data # Absent THEN reply.data
                            ELSE None)
         ELSE IF reply.error = "s:code" THEN Throws("TypeError")
         ELSE IF reply.error \in OneEntry
         THEN ProtocolError(0, ValueOfEntry(reply.error))
         ELSE ProtocolError(0, reply.error)
    ELSE NoError

\* ServerProxy._run_request on the body of the HTTP reply, a text of no or
\* one JSON value: an empty body is None, another one is decoded by loads,
\* which raises ValueError on a text that is not JSON
_run_request(response) ==
    LET decoded(data) ==
            IF data.error THEN [exc |-> "ValueError", reply |-> ReplyAtom(None)]
            ELSE [exc |-> "",
                  reply |-> IF data.value.kind = "list" THEN data.value
                            ELSE data.value.items[1]]
    IN  IF Len(response) = 0 THEN [exc |-> "", reply |-> ReplyAtom(None)]
        ELSE decoded(loads(response))

\* ServerProxy._request from the reply on: check_for_errors(response), then
\* response['result']
_request(text) ==
    LET subscript(response) ==
            IF response.kind # "dict" THEN Throws("TypeError")
            ELSE IF response.result = Absent THEN Throws("KeyError")
            ELSE Passed(response.result)
        checked(response, errors) ==
            IF errors.exc # "" THEN errors ELSE subscript(response)
        received(response) ==
            IF response.exc # "" THEN Throws(response.exc)
            ELSE checked(response.reply, check_for_errors(response.reply))
    IN  received(_run_request(text))

\* MultiCallMethod.request(): the text of one job of a MultiCall
Job(method, params, notify) ==
    [method |-> method, params |-> params, notify |-> notify]

MultiCallMethod_request(job) ==
    dumps(job.params, job.method, None, 2, job.notify)

\* MultiCall._request: the body "[ job , job ... ]" sent for the jobs
RECURSIVE JoinJobs(_)
JoinJobs(job_list) ==
    IF Len(job_list) = 1 THEN MultiCallMethod_request(job_list[1]).text
    ELSE MultiCallMethod_request(job_list[1]).text \o <<Comma>>
         \o JoinJobs(Tail(job_list))

MultiCall_request_first_only(job_list) ==
    <<LBracket>> \o MultiCallMethod_request(job_list[1]).text
    \o <<RBracket>>

MultiCall_request(job_list) ==
    <<LBracket>> \o JoinJobs(job_list) \o <<RBracket>>

\* ------------------------------------------------------------------------
\* The codec called on its own: one call at a time, kept in `client` until
\* it returns

MaxJobs == 2

Ids == {None, "i:0", "s:", "i:1", "s:1"}
MethodNames == {"s:sum", "s:foobar", "i:5"}
ParamValues == {None, "i:5"} \cup TupleLits \cup ListLits \cup DictLits
Versions == {1, 2}
Results == {Returned(None), Returned("i:0"), Returned("[1,2]"), ReturnedFault(Fault(-32601, "s:x", None, 0))}
Codes == {-32701, -32700, -32603, -32000, -31999, 1}
ErrorObjects == {[error |-> "{code}", code |-> c, message |-> m, data |-> d] : c \in Codes, m \in {Absent, "s:x"}, d \in {Absent, "s:bar"}}
OtherErrors == {[error |-> e, code |-> 0, message |-> Absent, data |-> Absent] : e \in {Absent, None, "{}", "s:boo", "s:code", "{a:1}"} \cup OneEntry}
Replies == {Reply(j, r, e.error, e.code, e.message, e.data) : j \in {Absent, "s:2.0", "s:3.0"}, r \in {Absent, None, "i:1"}, e \in ErrorObjects \cup OtherErrors}
ReplyAtoms == {ReplyAtom(l) : l \in {None, "i:0", "i:1", "[]", "[1,2]", "s:x"}}
ReplyTexts == {<<>>, <<Broken>>} \cup {<<r>> : r \in Replies \cup ReplyAtoms}
Jobs == {Job(m, p, n) : m \in {"s:sum", "s:foobar"}, p \in {"()", "(1,2)", "{a:1}"}, n \in BOOLEAN}
JobLists == UNION {[1..n -> Jobs] : n \in 1..MaxJobs}

serving == <<pc, setup, notification_pool, answer, queue, heap, threads,
             beyond>>

CallDumps(params, methodname, rpcid, version, notify) ==
    LET called(written) ==
            [fn |-> "dumps", params |-> params, methodname |-> methodname,
             rpcid |-> rpcid, version |-> version, notify |-> notify,
             raised |-> written.raised, text |-> written.text,
             loaded |-> loads(written.text)]
    IN  /\ client = NoCall
        /\ client' = called(dumps(params, methodname, rpcid, version, notify))
        /\ UNCHANGED serving

CallPayloadRequest(id, version, method, params) ==
    /\ client = NoCall
    /\ client' = [fn |-> "Payload.request", id |-> id, version |-> version,
                  method |-> method, params |-> params,
                  made |-> Payload_request(id, version, method, params)]
    /\ UNCHANGED serving

CallPayloadNotify(id, version, method, params) ==
    /\ client = NoCall
    /\ client' = [fn |-> "Payload.notify", id |-> id, version |-> version,
                  method |-> method, params |-> params,
                  made |-> Payload_notify(id, version, method, params)]
    /\ UNCHANGED serving

CallPayloadResponse(id, version, value) ==
    /\ client = NoCall
    /\ client' = [fn |-> "Payload.response", id |-> id, version |-> version,
                  given |-> value,
                  made |-> Payload_response(id, version, value)]
    /\ UNCHANGED serving

CallPayloadError(id, version, code, message) ==
    /\ client = NoCall
    /\ client' = [fn |-> "Payload.error", id |-> id, version |-> version,
                  code |-> code, message |-> message,
                  made |-> Payload_error(id, version, code, message)]
    /\ UNCHANGED serving

CallDumpResponse(params, rpcid, version) ==
    /\ client = NoCall
    /\ client' = [fn |-> "dump", params |-> params, rpcid |-> rpcid,
                  version |-> version, made |-> dump(params, rpcid, version)]
    /\ UNCHANGED serving

CallRequest(text) ==
    /\ client = NoCall
    /\ client' = [fn |-> "_request", text |-> text,
                  received |-> _run_request(text),
                  given |-> _request(text)]
    /\ UNCHANGED serving

CallCheckForErrors(reply) ==
    /\ client = NoCall
    /\ client' = [fn |-> "check_for_errors", reply |-> reply,
                  given |-> check_for_errors(reply)]
    /\ UNCHANGED serving

CallMultiCall(job_list) ==
    /\ client = NoCall
    /\ client' = [fn |-> "MultiCall", job_list |-> job_list,
                  request_body |-> MultiCall_request(job_list),
                  sent |-> jloads(MultiCall_request(job_list))]
    /\ UNCHANGED serving

\* ------------------------------------------------------------------------
\* Client side: responses on the wire

\* What is encoded as a response: a result, or a Fault with its code,
\* message and data (None when it has none)
ResultOf(value) ==
    [t |-> "value", value |-> value, code |-> 0, message |-> Absent,
     data |-> None]
FaultOf(code, message, data) ==
    [t |-> "fault", value |-> None, code |-> code, message |-> message,
     data |-> data]

\* The JSON object written for a response dictionary: a tuple is written as
\* an array, and the error object has a data entry when the Fault has data
WireOf_without_data(resp, data) ==
    [kind |-> "dict", lit |-> Absent, jsonrpc |-> resp.jsonrpc,
     id |-> resp.id, result |-> ArrayOf(resp.result), error |-> resp.error,
     code |-> resp.code, message |-> resp.message, data |-> Absent]

WireOf(resp, data) ==
    [kind |-> "dict", lit |-> Absent, jsonrpc |-> resp.jsonrpc,
     id |-> resp.id, result |-> ArrayOf(resp.result), error |-> resp.error,
     code |-> resp.code, message |-> resp.message,
     data |-> IF resp.error = "{error}" /\ data # None THEN data
              ELSE Absent]

\* dumps(params, methodresponse=True, rpcid=rpcid, version=version): the
\* text of the response, or a raised error
dumps_response(params, rpcid, version) ==
    LET written(made) ==
            [raised |-> IF made.raised THEN made.exc ELSE "",
             text |-> IF made.raised THEN <<>>
                      ELSE <<WireOf(made.resp, params.data)>>]
    IN  written(dump(IF params.t = "fault"
                     THEN ReturnedFault(Fault(params.code, params.message,
                                              None, 0))
                     ELSE Returned(params.value),
                     rpcid, version))

\* What a decoded response is encoded from again: its result, or a Fault
\* made of the code, the message and the data of its error object
Rebuilt(decoded) ==
    IF decoded.error \notin {Absent, None}
    THEN FaultOf(decoded.code, decoded.message,
                 IF decoded.data = Absent THEN None ELSE decoded.data)
    ELSE ResultOf(decoded.result)

ResponseValues == {ResultOf(v) : v \in {None, "i:0", "[1,2]", "(1,2)", "{a:1}"}} \cup {FaultOf(c, "s:x", d) : c \in {-32603, 1}, d \in {None, "s:bar"}}

CallDumpsResponse(params, rpcid, version) ==
    LET again(written) ==
            IF written.raised # "" THEN written
            ELSE dumps_response(Rebuilt(loads(written.text).value.items[1]),
                                rpcid, version)
        called(written) ==
            [fn |-> "dumps response", params |-> params, rpcid |-> rpcid,
             version |-> version, raised |-> written.raised,
             text |-> written.text, loaded |-> loads(written.text),
             again |-> again(written)]
    IN  /\ client = NoCall
        /\ client' = called(dumps_response(params, rpcid, version))
        /\ UNCHANGED serving

\* ------------------------------------------------------------------------
\* Client side: isbatch and isnotification (jsonrpclib.client_protocol)

\* A Python tuple of entries: json.loads gives lists only, a caller may give
\* a tuple
TupleValue(items) == [kind |-> "tuple", items |-> items]

\* float(value) of Python: the float in tenths, NaN, or the error raised.
\* A string that is not a number raises ValueError; None, a complex number
\* and a list raise TypeError
Converted(tenths) == [exc |-> "", nan |-> FALSE, tenths |-> tenths]
NaN == [exc |-> "", nan |-> TRUE, tenths |-> 0]
NotConverted(exc) == [exc |-> exc, nan |-> FALSE, tenths |-> 0]

float(value) ==
    CASE value \in {"s:2.0", "f:2.0", "i:2"} -> Converted(20)
      [] value = "s:3.0" -> Converted(30)
      [] value \in {"s:1.0", "f:1.0", "true"} -> Converted(10)
      [] value = "s:nan" -> NaN
      [] value \in {"s:", "s:2.0.1"} -> NotConverted("ValueError")
      [] OTHER -> NotConverted("TypeError")

\* a < n for a float a and an integer n: false when a is NaN
LessThan(a, n) == ~a.nan /\ a.tenths < 10 * n

\* isbatch(request): True or False, or the error raised
IsBatchResult(value) == [exc |-> "", value |-> value]
IsBatchRaised(exc) == [exc |-> exc, value |-> FALSE]

isbatch(request) ==
    LET tested(version) ==
            IF version.exc = "ValueError" THEN IsBatchRaised("ProtocolError")
            ELSE IF version.exc # "" THEN IsBatchRaised(version.exc)
            ELSE IF LessThan(version, 2) THEN IsBatchResult(FALSE)
            ELSE IsBatchResult(TRUE)
    IN  IF request.kind \notin {"list", "tuple"} THEN IsBatchResult(FALSE)
        ELSE IF Len(request.items) < 1 THEN IsBatchResult(FALSE)
        ELSE IF request.items[1].kind # "dict" THEN IsBatchResult(FALSE)
        ELSE IF request.items[1].jsonrpc = Absent THEN IsBatchResult(FALSE)
        ELSE tested(float(request.items[1].jsonrpc))

VersionValues == {"s:2.0", "f:2.0", "i:2", "s:3.0", "s:1.0", "f:1.0", "true", "s:nan", "s:", "s:2.0.1", None, "2j", "[2.0]"}
FirstEntries == {Dict(v, i, "s:sum", "[1,2]", Absent) : v \in VersionValues \cup {Absent}, i \in {Absent, "i:1"}} \cup {Dict(Absent, Absent, Absent, Absent, Absent), Dict(Absent, Absent, Absent, Absent, "x"), Atom(None), Atom("i:1")}
NextEntries == {Dict("s:2.0", "i:1", "s:sum", "[1,2]", Absent), Dict(Absent, "i:1", "s:sum", "[1,2]", Absent), Atom("i:1")}
EntryLists == {<<>>} \cup {<<e>> : e \in FirstEntries} \cup {<<e, f>> : e \in FirstEntries, f \in NextEntries}
IsBatchArguments == {ListValue(l) : l \in EntryLists} \cup {TupleValue(l) : l \in EntryLists} \cup {SingleValue(e) : e \in FirstEntries}

CallIsBatch(request) ==
    /\ client = NoCall
    /\ client' = [fn |-> "isbatch", request |-> request,
                  given |-> isbatch(request)]
    /\ UNCHANGED serving

\* ------------------------------------------------------------------------
\* Proxy callables: _Method of jsonrpc and _AsyncMethod of jsonrpc_async

\* What a proxy call did: the error it raised, the texts dumps encoded and
\* the request bodies given to the transport
ProxyCall(raised, encoded, requests) ==
    [raised |-> raised, encoded |-> encoded, requests |-> requests]

\* self.__send(self.__name, params) up to the transport: ServerProxy._request
\* or _request_notify encodes the call and runs the request
ProxySend(name, params, version, notify) ==
    LET run(written) ==
            IF written.raised # "" THEN ProxyCall(written.raised, <<>>, <<>>)
            ELSE ProxyCall("", <<written.text>>, <<written.text>>)
    IN  run(dumps(params, name, None, version, notify))

\* _Method.__call__(*args, **kwargs)
_Method___call___preferring_args(name, args, kwargs, version, notify) ==
    IF Truthy(args) THEN ProxySend(name, args, version, notify)
    ELSE ProxySend(name, kwargs, version, notify)

_Method___call__(name, args, kwargs, version, notify) ==
    IF Truthy(args) /\ Truthy(kwargs)
    THEN ProxyCall("ProtocolError", <<>>, <<>>)
    ELSE IF Truthy(args) THEN ProxySend(name, args, version, notify)
    ELSE ProxySend(name, kwargs, version, notify)

\* await _AsyncMethod.__call__(*args, **kwargs)
_AsyncMethod___call__(name, args, kwargs, version, notify) ==
    IF Truthy(args) /\ Truthy(kwargs)
    THEN ProxyCall("ProtocolError", <<>>, <<>>)
    ELSE IF Truthy(args) THEN ProxySend(name, args, version, notify)
    ELSE ProxySend(name, kwargs, version, notify)

CallMethod(proxy, name, args, kwargs, version, notify) ==
    /\ client = NoCall
    /\ client' = [fn |-> "__call__", proxy |-> proxy, name |-> name,
                  args |-> args, kwargs |-> kwargs, version |-> version,
                  notify |-> notify,
                  did |-> IF proxy = "ServerProxy"
                          THEN _Method___call__(name, args, kwargs, version,
                                           notify)
                          ELSE _AsyncMethod___call__(name, args, kwargs, version,
                                                notify)]
    /\ UNCHANGED serving

\* The call returns to its caller, which makes the next one
Return ==
    /\ client # NoCall
    /\ client' = NoCall
    /\ UNCHANGED serving

InitClient ==
    /\ Init
    /\ dispatch_method = None
    /\ instance = None

NextClient ==
    \/ \E params \in ParamValues, methodname \in MethodNames, rpcid \in Ids, version \in Versions, notify \in BOOLEAN :
          CallDumps(params, methodname, rpcid, version, notify)
    \/ \E id \in Ids, version \in Versions, method \in MethodNames, params \in ParamValues :
          CallPayloadRequest(id, version, method, params)
    \/ \E id \in Ids, version \in Versions, method \in MethodNames, params \in ParamValues :
          CallPayloadNotify(id, version, method, params)
    \/ \E id \in Ids, version \in Versions, value \in {None, "i:0", "i:1", "[1,2]"} :
          CallPayloadResponse(id, version, value)
    \/ \E id \in Ids, version \in Versions, code \in Codes, message \in {"s:x"} :
          CallPayloadError(id, version, code, message)
    \/ \E params \in Results, rpcid \in Ids, version \in Versions :
          CallDumpResponse(params, rpcid, version)
    \/ \E text \in ReplyTexts : CallRequest(text)
    \/ \E reply \in Replies \cup ReplyAtoms : CallCheckForErrors(reply)
    \/ \E job_list \in JobLists : CallMultiCall(job_list)
    \/ \E params \in ResponseValues, rpcid \in Ids, version \in Versions :
          CallDumpsResponse(params, rpcid, version)
    \/ \E request \in IsBatchArguments : CallIsBatch(request)
    \/ \E proxy \in {"ServerProxy", "AsyncServerProxy"}, name \in {"s:sum", "s:foobar"}, args \in TupleLits, kwargs \in DictLits, version \in Versions, notify \in BOOLEAN :
          CallMethod(proxy, name, args, kwargs, version, notify)
    \/ Return

SpecClient == InitClient /\ [][NextClient]_vars

\* ------------------------------------------------------------------------
\* Claims about the client side

\* check_for_errors was called on a reply dictionary of a supported version
\* whose error object has a code, a message and data
CodedError ==
    /\ client.fn = "check_for_errors"
    /\ client.reply.kind = "dict"
    /\ ~Newer(client.reply.jsonrpc)
    /\ client.reply.error = "{code}"
    /\ client.reply.message # Absent
    /\ client.reply.data # Absent

Predefined(code) == -32700 <= code /\ code <= -32000

\* C14 as stated: check_for_errors raises a ProtocolError for a code within
\* [-32700, -32000] and an AppError for every other code, and the raised
\* error carries the code, the message and the data of the error object.
C14_ErrorCarriesCodeMessageData ==
    CodedError =>
        /\ client.given.exc =
               IF Predefined(client.reply.code) THEN "ProtocolError"
               ELSE "AppError"
        /\ client.given.code = client.reply.code
        /\ client.given.message = client.reply.message
        /\ client.given.data = client.reply.data

\* C14, amended: check_for_errors raises a ProtocolError carrying the code
\* and the message for a code within [-32700, -32000], and an AppError
\* carrying the code, the message and the data for every other code.
C14_ProtocolErrorWithoutData ==
    CodedError =>
        /\ client.given.code = client.reply.code
        /\ client.given.message = client.reply.message
        /\ IF Predefined(client.reply.code)
           THEN client.given.exc = "ProtocolError"
                /\ client.given.data = Absent
           ELSE client.given.exc = "AppError"
                /\ client.given.data = client.reply.data

C14_Witness ==
    /\ CodedError
    /\ client.reply.code = -32000
    /\ client.reply.data = "s:bar"
    /\ client.given.exc = "ProtocolError"


\* C15 as stated: whatever reply the transport returns (a result response,
\* an error response of any shape, an empty body, a JSON value that is not
\* a response object), ServerProxy._request returns the result field of the
\* reply or raises a ProtocolError or an AppError, and no other error.
C15_OnlyProtocolOrAppError ==
    client.fn = "_request" =>
        \/ client.given.exc \in {"ProtocolError", "AppError"}
        \/ /\ client.given.exc = ""
           /\ client.received.reply.kind = "dict"
           /\ client.given.value = client.received.reply.result


\* dumps was called with a method name and params it accepts, and an id was
\* supplied
Encoded ==
    /\ client.fn = "dumps"
    /\ ~client.notify
    /\ client.raised = ""
    /\ client.rpcid # None

\* The request decoded from the text dumps wrote
DecodedRequest == client.loaded.value.items[1]

\* The params a request stands for: a tuple is the array of its items, and
\* no params key, an empty array and an empty object are all a call without
\* arguments
SameParams(given, decoded) ==
    \/ ArrayOf(given) = decoded
    \/ ~Truthy(given) /\ ~Truthy(decoded)

\* C16 as stated: for every method name, params value (positional or
\* keyword, empty params included) and supplied id,
\* loads(dumps(params, method, rpcid=id, version=v)) is a request with the
\* same method, the same params and the same id, for v = 1.0 and v = 2.0.
C16_RequestRoundTrip ==
    Encoded =>
        /\ ~client.loaded.error
        /\ DecodedRequest.method = client.methodname
        /\ SameParams(client.params, DecodedRequest.params)
        /\ DecodedRequest.id = client.rpcid


\* A response was built by Payload.response or Payload.error
ResponseBuilt == client.fn \in {"Payload.response", "Payload.error"}

NonNull(value) == value \notin {Absent, None}

\* C17 as stated: a response built by Payload.response or Payload.error has,
\* for V1, both the result and the error key with exactly one of them
\* non-null; for V2 exactly one of the two keys plus the jsonrpc tag; and
\* never a non-null result together with a non-null error.
C17_ExactlyOneNonNull ==
    ResponseBuilt =>
        /\ client.version = 1 =>
              /\ client.made.result # Absent
              /\ client.made.error # Absent
              /\ NonNull(client.made.result) # NonNull(client.made.error)
        /\ client.version = 2 =>
              /\ (client.made.result = Absent) # (client.made.error = Absent)
              /\ client.made.jsonrpc = "s:2.0"
        /\ ~(NonNull(client.made.result) /\ NonNull(client.made.error))

\* C17, amended: for V1 the response has both keys, with a null error next
\* to the result (which may itself be null) or a null result next to the
\* error object; for V2 it has the jsonrpc tag and the result key alone or
\* the error key alone; never a non-null result with a non-null error.
C17_OneOfResultAndError ==
    ResponseBuilt =>
        /\ client.version = 1 =>
              /\ client.made.jsonrpc = Absent
              /\ IF client.fn = "Payload.response"
                 THEN client.made.result = client.given
                      /\ client.made.error = None
                 ELSE client.made.result = None
                      /\ client.made.error = "{error}"
        /\ client.version = 2 =>
              /\ client.made.jsonrpc = "s:2.0"
              /\ IF client.fn = "Payload.response"
                 THEN client.made.result = client.given
                      /\ client.made.error = Absent
                 ELSE client.made.result = Absent
                      /\ client.made.error = "{error}"
        /\ ~(NonNull(client.made.result) /\ NonNull(client.made.error))

C17_Witness ==
    /\ client.fn = "Payload.response"
    /\ client.version = 1
    /\ client.given = None
    /\ client.made.result = None
    /\ client.made.error = None


\* The entries of the body a MultiCall sent, decoded
SentEntries == client.sent.value.items

\* C18: a notification encoded by dump / Payload.notify has no id key for
\* V2, whatever rpcid was supplied, and an id key holding null for V1; so
\* have the notify-mode entries of a MultiCall, which are V2.
C18_NotificationHasNoId ==
    /\ (client.fn = "Payload.notify" /\ client.made.raised = "") =>
          client.made.dict.id = IF client.version = 2 THEN Absent ELSE None
    /\ (client.fn = "dumps" /\ client.notify /\ client.raised = "") =>
          /\ ~client.loaded.error
          /\ DecodedRequest.id = IF client.version = 2 THEN Absent ELSE None
    /\ client.fn = "MultiCall" =>
          /\ ~client.sent.error
          /\ Len(SentEntries) = Len(client.job_list)
          /\ \A i \in 1..Len(client.job_list) :
                client.job_list[i].notify =>
                    /\ SentEntries[i].id = Absent
                    /\ SentEntries[i].jsonrpc = "s:2.0"
                    /\ SentEntries[i].method = client.job_list[i].method

C18_Witness ==
    /\ client.fn = "MultiCall"
    /\ Len(client.job_list) = 2
    /\ client.job_list[1].notify
    /\ ~client.job_list[2].notify
    /\ SentEntries[1].id = Absent
    /\ SentEntries[2].id = uuid4


\* Payload.request built a request
RequestBuilt == client.fn = "Payload.request" /\ client.made.raised = ""

\* C19: a V1 request built by Payload.request always has a params key (an
\* empty array when no params are given), a V2 request has no params key
\* when the params are empty, and non-empty params are carried unchanged in
\* either version.
C19_ParamsKey ==
    RequestBuilt =>
        /\ (client.version = 1 /\ ~Truthy(client.params)) =>
              client.made.dict.params = "[]"
        /\ (client.version = 2 /\ ~Truthy(client.params)) =>
              client.made.dict.params = Absent
        /\ Truthy(client.params) =>
              client.made.dict.params = client.params

C19_Witness ==
    /\ RequestBuilt
    /\ client.version = 2
    /\ client.params = "()"
    /\ client.made.dict.params = Absent
    /\ client.made.dict.jsonrpc = "s:2.0"


\* dump(params, rpcid=rpcid, is_response=True) was called
ResponseDumped == client.fn = "dump"

\* C20: dump with is_response=True raises ValueError when the id is None
\* and the payload is a result; it accepts a Fault with a None id, giving
\* an error response whose id is null, and it accepts the falsy ids that
\* are not None, such as 0.
C20_ResponseNeedsId ==
    ResponseDumped =>
        /\ (client.params.t = "value" /\ client.rpcid = None) =>
              client.made.raised /\ client.made.exc = "ValueError"
        /\ (client.params.t = "fault" /\ client.rpcid = None) =>
              /\ ~client.made.raised
              /\ client.made.resp.id = None
              /\ client.made.resp.error = "{error}"
              /\ client.made.resp.code = client.params.fault.code
        /\ (client.params.t = "value" /\ client.rpcid # None) =>
              /\ ~client.made.raised
              /\ client.made.resp.id = client.rpcid
              /\ client.made.resp.result = client.params.value

C20_Witness ==
    /\ ResponseDumped
    /\ client.params = Returned("[1,2]")
    /\ client.rpcid = "i:0"
    /\ ~client.made.raised
    /\ client.made.resp.id = "i:0"


\* A response was encoded by dumps, and decoded again
ResponseEncoded == client.fn = "dumps response" /\ client.raised = ""

DecodedResponse == client.loaded.value.items[1]

\* C21: encoding again a decoded valid response (its result, or its error
\* rebuilt as a Fault from code, message and data) with the same id and
\* version gives the wire object of the first encoding, for V1 and V2; and
\* the decoded response holds the id and the result or the error encoded.
C21_ResponseReencodes ==
    ResponseEncoded =>
        /\ ~client.loaded.error
        /\ client.again.raised = ""
        /\ client.again.text = client.text
        /\ DecodedResponse.id = client.rpcid
        /\ client.params.t = "value" =>
              DecodedResponse.result = ArrayOf(client.params.value)
        /\ client.params.t = "fault" =>
              /\ DecodedResponse.code = client.params.code
              /\ DecodedResponse.message = client.params.message
              /\ DecodedResponse.data =
                     IF client.params.data = None THEN Absent
                     ELSE client.params.data

C21_Witness ==
    /\ ResponseEncoded
    /\ client.version = 1
    /\ client.params = FaultOf(1, "s:x", "s:bar")
    /\ DecodedResponse.data = "s:bar"
    /\ DecodedResponse.result = None
    /\ client.again.text = client.text


\* isbatch was called on an array whose first element is an object that has
\* a jsonrpc key
VersionedArray ==
    /\ client.fn = "isbatch"
    /\ client.request.kind \in {"list", "tuple"}
    /\ Len(client.request.items) >= 1
    /\ client.request.items[1].kind = "dict"
    /\ client.request.items[1].jsonrpc # Absent

\* The jsonrpc value of the first element converts to a float of at least 2
AtLeastTwo(version) ==
    version.exc = "" /\ ~version.nan /\ version.tenths >= 20

\* C22 as stated: isbatch returns True exactly when its argument is a
\* non-empty list or tuple whose first element is an object with a jsonrpc
\* key whose value converts to a float of at least 2.0, and False for any
\* other argument whose jsonrpc value, if any, converts to a float.
C22_BatchIffVersionAtLeastTwo ==
    (/\ client.fn = "isbatch"
     /\ VersionedArray => float(client.request.items[1].jsonrpc).exc = "") =>
        /\ client.given.exc = ""
        /\ client.given.value =
               (/\ VersionedArray
                /\ AtLeastTwo(float(client.request.items[1].jsonrpc)))

\* C23 as stated: for a non-empty array whose first element is an object
\* with a jsonrpc key whose value does not convert to a float (an empty or
\* malformed string, null, a complex number, a list), isbatch raises
\* ProtocolError and nothing else.
C23_BadVersionIsProtocolError ==
    (/\ VersionedArray
     /\ float(client.request.items[1].jsonrpc).exc # "") =>
        client.given.exc = "ProtocolError"


\* ------------------------------------------------------------------------
\* isnotification(request) of jsonrpclib.client_protocol: request["id"] is
\* None, or the request has no id key
isnotification(request) ==
    IF request.id = Absent THEN TRUE ELSE request.id = None

\* C24 as stated: the engine treats a request as a notification, giving it
\* no response, exactly when isnotification(request) is true; any other id
\* (0, an empty string, a string, a number) makes it a call that gets a
\* response (stated for the requests that validation accepts).
C24_NotificationIffIsNotification ==
    Dispatched =>
        \A i \in 1..Len(Entries) :
            WellShaped(Entries[i]) =>
                (outcomes[i] = NoResponse) = isnotification(Entries[i])


\* ------------------------------------------------------------------------
\* MultiCall: recording calls, executing them, reading the results
\* (jsonrpclib.jsonrpc)

\* The reply text as the client reads it: the response dictionaries with the
\* keys check_for_errors and the result view look at
ReplyOf(resp) ==
    Reply(resp.jsonrpc, resp.result,
          IF resp.error = "{error}" THEN "{code}" ELSE resp.error,
          resp.code,
          IF resp.error = "{error}" THEN resp.message ELSE Absent,
          Absent)

Received(text) ==
    [k \in 1..Len(text) |->
        IF text[k].kind = "response" THEN ReplyOf(text[k])
        ELSE Punct(text[k].kind)]

\* MultiCallIterator.__get_result(item): check_for_errors(item), then
\* item['result']
MultiCallIterator_get_result_unchecked(item) ==
    IF item.kind # "dict" THEN Throws("TypeError")
    ELSE IF item.result = Absent THEN Throws("KeyError")
    ELSE Passed(item.result)

MultiCallIterator_get_result(item) ==
    LET subscript(errors) ==
            IF errors.exc # "" THEN errors
            ELSE IF item.kind # "dict" THEN Throws("TypeError")
            ELSE IF item.result = Absent THEN Throws("KeyError")
            ELSE Passed(item.result)
    IN  subscript(check_for_errors(item))

\* list(view): MultiCallIterator.__iter__ run to its end, the values it
\* yielded and the error that stopped it, if any
Iterated(yielded, raised) == [yielded |-> yielded, raised |-> raised]

RECURSIVE MultiCallIterator_iter(_)
MultiCallIterator_iter(results) ==
    LET after(value, rest) == Iterated(<<value>> \o rest.yielded, rest.raised)
        next(first) ==
            IF first.exc # "" THEN Iterated(<<>>, first.exc)
            ELSE after(first.value, MultiCallIterator_iter(Tail(results)))
    IN  IF Len(results) = 0 THEN Iterated(<<>>, "")
        ELSE next(MultiCallIterator_get_result(Head(results)))

\* The results a view is made of: MultiCallIterator(responses or [])
MultiCallIterator(responses) ==
    IF ~ReplyTruthy(responses) THEN <<>> ELSE responses.items


\* Nothing was read from a view yet
NoRead ==
    [mode |-> "none", at |-> 0, given |-> NoError, all |-> Iterated(<<>>, "")]

\* The read ended with an error
HasRaised(read) == read.given.exc # "" \/ read.all.raised # ""

\* A MultiCall object, the requests the transport got from it
\* (`exchanges`), the jobs of its last exchange (`executed`), what its last
\* execution returned ("None" or "view") and the last view it made, the
\* last read of that view and whether a read before it raised (`faulted`);
\* `recorded` counts the jobs ever appended, `accepted` the calls of the job
\* list that were accepted, `rejected` tells that a call raised
\* ProtocolError, `lost` is the body of the last exchange that failed
NewBatch ==
    [fn |-> "batch", job_list |-> <<>>, recorded |-> 0, exchanges |-> <<>>,
     executed |-> <<>>, engine |-> FALSE, returned |-> "unset",
     view |-> <<>>, read |-> NoRead, faulted |-> FALSE,
     accepted |-> 0, rejected |-> FALSE, lost |-> <<>>]

\* The transport raised instead of answering
TransportFailure == <<[kind |-> "failure"]>>

\* Calls recorded in the model: <<method, args, kwargs>>
RecordedCalls == {<<"s:sum", "(1,2)", "{}">>, <<"s:fail", "()", "{}">>}

\* Replies of a server that is not this engine: arrays of result and error
\* responses
ReplyEntries == {Reply("s:2.0", "i:3", Absent, 0, Absent, Absent), Reply("s:2.0", Absent, "{code}", -32603, "s:x", Absent), Reply(Absent, None, "{code}", 1, "s:x", "s:bar")}
ReplyArrays == {TextOf(ListValue(items)) : items \in SeqsUpTo(ReplyEntries, 2)}

\* MultiCall(server)
MultiCall ==
    /\ client = NoCall
    /\ client' = NewBatch
    /\ UNCHANGED serving

\* multicall.name(*args, **kwargs) and multicall._notify.name(...): a new
\* MultiCallMethod is appended to the job list and given its params
RecordCall(name, args, kwargs, notify) ==
    /\ client.fn = "batch"
    /\ client.recorded < MaxJobs
    /\ ~(Truthy(args) /\ Truthy(kwargs))
    /\ client' = [client EXCEPT
                     !.job_list = Append(@, Job(name,
                                      IF Truthy(kwargs) THEN kwargs ELSE args,
                                      notify)),
                     !.recorded = @ + 1,
                     !.accepted = @ + 1]
    /\ UNCHANGED serving

\* multicall.name and multicall._notify.name, read and not called:
\* MultiCall.__getattr__ and MultiCallNotify.__getattr__ append the new
\* MultiCallMethod, whose params are [], to the job list
ReadAttribute(name, notify) ==
    /\ client.fn = "batch"
    /\ client.recorded < MaxJobs
    /\ client' = [client EXCEPT
                     !.job_list = Append(@, Job(name, "[]", notify)),
                     !.recorded = @ + 1]
    /\ UNCHANGED serving

\* multicall.name(*args, **kwargs) with both positional and keyword
\* arguments: __getattr__ has appended the job when
\* MultiCallMethod.__call__ raises ProtocolError
RejectCall(name, args, kwargs, notify) ==
    /\ client.fn = "batch"
    /\ client.recorded < MaxJobs
    /\ Truthy(args) /\ Truthy(kwargs)
    /\ client' = [client EXCEPT
                     !.job_list = Append(@, Job(name, "[]", notify)),
                     !.recorded = @ + 1,
                     !.rejected = TRUE]
    /\ UNCHANGED serving

\* MultiCall._request once the transport has answered `response` to the
\* body: the job list is cleared and a view of the responses is returned;
\* with no job, nothing is sent and None is returned; when the transport
\* raises, _run_request does not return and the job list is not cleared
MultiCall__request_keeping_jobs(multicall, response, engine) ==
    IF Len(multicall.job_list) < 1
    THEN [multicall EXCEPT !.returned = "None"]
    ELSE [multicall EXCEPT
             !.exchanges = Append(@, MultiCall_request(multicall.job_list)),
             !.executed = multicall.job_list,
             !.engine = engine,
             !.returned = "view",
             !.view = MultiCallIterator(_run_request(response).reply),
             !.read = NoRead,
             !.faulted = FALSE]

MultiCall__request_sending_empty_array(multicall, response, engine) ==
    IF Len(multicall.job_list) < 1
    THEN [multicall EXCEPT
             !.exchanges = Append(@, <<LBracket, RBracket>>),
             !.returned = "None"]
    ELSE [multicall EXCEPT
             !.exchanges = Append(@, MultiCall_request(multicall.job_list)),
             !.executed = multicall.job_list,
             !.engine = engine,
             !.job_list = <<>>,
             !.accepted = 0,
             !.returned = "view",
             !.view = MultiCallIterator(_run_request(response).reply),
             !.read = NoRead,
             !.faulted = FALSE]

MultiCall__request_clearing_first(multicall, response, engine) ==
    IF Len(multicall.job_list) < 1
    THEN [multicall EXCEPT !.returned = "None"]
    ELSE IF response = TransportFailure
    THEN [multicall EXCEPT
             !.lost = MultiCall_request(multicall.job_list),
             !.job_list = <<>>,
             !.accepted = 0,
             !.returned = "raised"]
    ELSE [multicall EXCEPT
             !.exchanges = Append(@, MultiCall_request(multicall.job_list)),
             !.executed = multicall.job_list,
             !.engine = engine,
             !.job_list = <<>>,
             !.accepted = 0,
             !.returned = "view",
             !.view = MultiCallIterator(_run_request(response).reply),
             !.read = NoRead,
             !.faulted = FALSE]

MultiCall__request(multicall, response, engine) ==
    IF Len(multicall.job_list) < 1
    THEN [multicall EXCEPT !.returned = "None"]
    ELSE IF response = TransportFailure
    THEN [multicall EXCEPT
             !.lost = MultiCall_request(multicall.job_list),
             !.returned = "raised"]
    ELSE [multicall EXCEPT
             !.exchanges = Append(@, MultiCall_request(multicall.job_list)),
             !.executed = multicall.job_list,
             !.engine = engine,
             !.job_list = <<>>,
             !.accepted = 0,
             !.returned = "view",
             !.view = MultiCallIterator(_run_request(response).reply),
             !.read = NoRead,
             !.faulted = FALSE]

\* The body the transport gets when the MultiCall is executed
BodySent ==
    IF Len(client.job_list) < 1 THEN <<>>
    ELSE MultiCall_request(client.job_list)

\* multicall(), the server being this engine
ExecuteOnEngine(pool) ==
    /\ client.fn = "batch"
    /\ client' = MultiCall__request(client,
                     Received(marshaled_dispatch(BodySent, dispatch_method,
                                  pool, json_config, instance).body.text),
                     TRUE)
    /\ UNCHANGED serving

\* multicall(), the server being any other one
Execute(response) ==
    /\ client.fn = "batch"
    /\ client' = MultiCall__request(client, response, FALSE)
    /\ UNCHANGED serving

\* view[i]: MultiCallIterator.__getitem__
ReadEntry(i) ==
    /\ client.fn = "batch"
    /\ i \in 1..Len(client.view)
    /\ client' = [client EXCEPT
                     !.faulted = @ \/ HasRaised(client.read),
                     !.read = [mode |-> "index", at |-> i,
                               given |-> MultiCallIterator_get_result(
                                             client.view[i]),
                               all |-> Iterated(<<>>, "")]]
    /\ UNCHANGED serving

\* list(view): MultiCallIterator.__iter__
Iterate ==
    /\ client.fn = "batch"
    /\ client.returned = "view"
    /\ client' = [client EXCEPT
                     !.faulted = @ \/ HasRaised(client.read),
                     !.read = [mode |-> "iter", at |-> 0, given |-> NoError,
                               all |-> MultiCallIterator_iter(client.view)]]
    /\ UNCHANGED serving

InitMultiCall ==
    /\ Init
    /\ instance = None

NextMultiCall ==
    \/ MultiCall
    \/ \E call \in RecordedCalls, notify \in BOOLEAN :
          RecordCall(call[1], call[2], call[3], notify)
    \/ \E pool \in {None, "pool"} : ExecuteOnEngine(pool)
    \/ \E response \in ReplyArrays : Execute(response)
    \/ \E i \in 1..MaxJobs : ReadEntry(i)
    \/ Iterate

SpecMultiCall == InitMultiCall /\ [][NextMultiCall]_vars


\* ------------------------------------------------------------------------
\* Claims about MultiCall

\* The request object the k-th recorded call is sent as: version 2.0, the
\* params as an array or an object (no params key when there are none), no
\* id key for a notification
SentAs(entry, job) ==
    /\ entry.kind = "dict"
    /\ entry.jsonrpc = "s:2.0"
    /\ entry.method = job.method
    /\ entry.params = IF Truthy(job.params) THEN ArrayOf(job.params)
                      ELSE Absent
    /\ (entry.id = Absent) = job.notify

\* The body is a JSON array of the jobs, in their order
ArrayOfJobs(text, job_list) ==
    /\ ~jloads(text).error
    /\ jloads(text).value.kind = "list"
    /\ Len(jloads(text).value.items) = Len(job_list)
    /\ \A k \in 1..Len(job_list) :
          SentAs(jloads(text).value.items[k], job_list[k])

\* C25: executing a MultiCall with n >= 1 recorded calls performs exactly
\* one transport exchange, whose body is a JSON array of n request objects,
\* the k-th being the k-th recorded call (method, params, notify flag) in
\* recording order, each encoded as version 2.0.
C25_OneExchangeWithAllJobs ==
    [][(/\ client.fn = "batch"
        /\ Len(client.job_list) >= 1
        /\ client'.fn = "batch"
        /\ client'.returned # client.returned
           \/ client'.job_list # client.job_list
           \/ client'.exchanges # client.exchanges
        /\ client'.recorded = client.recorded) =>
            /\ Len(client'.exchanges) = Len(client.exchanges) + 1
            /\ SubSeq(client'.exchanges, 1, Len(client.exchanges)) =
                   client.exchanges
            /\ ArrayOfJobs(client'.exchanges[Len(client'.exchanges)],
                           client.job_list)]_vars

C25_Witness ==
    /\ client.fn = "batch"
    /\ Len(client.exchanges) = 1
    /\ Len(client.executed) = 2
    /\ client.executed[1].notify
    /\ ~client.executed[2].notify
    /\ client.executed[2].method = "s:fail"
    /\ ArrayOfJobs(client.exchanges[1], client.executed)


\* An entry of a reply that is a fault: it has an error object with a code
IsFaultEntry(item) == item.error = "{code}"

\* What reading an entry must give: its result, or the typed failure of its
\* error object
OutcomeOf(item) ==
    IF ~IsFaultEntry(item) THEN Passed(item.result)
    ELSE IF Predefined(item.code) THEN ProtocolError(item.code, item.message)
    ELSE AppError(item.code, item.message,
                  IF item.data = Absent THEN None ELSE item.data)

\* Position of the first fault of a view, or one past its end
FirstFault(view) ==
    IF \E k \in 1..Len(view) : IsFaultEntry(view[k])
    THEN CHOOSE k \in 1..Len(view) :
            /\ IsFaultEntry(view[k])
            /\ \A j \in 1..(k - 1) : ~IsFaultEntry(view[j])
    ELSE Len(view) + 1

\* C26: executing a MultiCall whose reply holds a fault at entry k does not
\* raise; reading entry i # k by index returns its result and reading
\* entry k raises the typed failure, whatever was read or raised before;
\* iterating yields the results before k and raises at k.
C26_FaultRaisedWhenRead ==
    (client.fn = "batch" /\ client.returned = "view"
     /\ Len(client.exchanges) > 0) =>
        /\ client.read.mode = "index" =>
              client.read.given = OutcomeOf(client.view[client.read.at])
        /\ client.read.mode = "iter" =>
              /\ Len(client.read.all.yielded) = FirstFault(client.view) - 1
              /\ \A j \in 1..Len(client.read.all.yielded) :
                    client.read.all.yielded[j] = client.view[j].result
              /\ client.read.all.raised =
                     IF FirstFault(client.view) > Len(client.view) THEN ""
                     ELSE OutcomeOf(client.view[FirstFault(client.view)]).exc

C26_Witness ==
    /\ client.fn = "batch"
    /\ Len(client.view) = 2
    /\ IsFaultEntry(client.view[1])
    /\ ~IsFaultEntry(client.view[2])
    /\ client.faulted
    /\ client.read.mode = "index"
    /\ client.read.at = 2
    /\ client.read.given = Passed("i:3")


\* The recorded calls that are not notifications, in their order
Calls(job_list) == SelectSeq(job_list, LAMBDA job : ~job.notify)

\* The outcome of a recorded call on this engine: summation(1, 2) returns
\* 3, fail() raises and the engine answers with the Fault -32603
OutcomeOfJob(item, job) ==
    IF job.method = "s:sum"
    THEN ~IsFaultEntry(item) /\ item.result = "i:3"
    ELSE IsFaultEntry(item) /\ item.code = -32603

\* C27: when a MultiCall is executed against this engine, the k-th element
\* of the result view is the outcome of the k-th recorded call that is not
\* a notification, and the length of the view is the number of those calls
\* (0 for a MultiCall of notifications only).
C27_ViewFollowsCalls ==
    (/\ client.fn = "batch"
     /\ client.engine
     /\ Len(client.exchanges) > 0) =>
        /\ Len(client.view) = Len(Calls(client.executed))
        /\ \A k \in 1..Len(client.view) :
              OutcomeOfJob(client.view[k], Calls(client.executed)[k])


\* C28: once an execution has done its exchange the pending list is empty,
\* and executing the MultiCall again without recording a call sends no
\* request.
C28_PendingListCleared ==
    [][(client.fn = "batch" /\ client'.fn = "batch") =>
          /\ client'.exchanges # client.exchanges =>
                client'.job_list = <<>>
          /\ (Len(client.job_list) = 0
              /\ client'.recorded = client.recorded) =>
                client'.exchanges = client.exchanges]_vars

C28_Witness ==
    /\ client.fn = "batch"
    /\ client.recorded = 2
    /\ Len(client.exchanges) = 1
    /\ client.job_list = <<>>
    /\ client.returned = "None"

\* C29: executing a MultiCall in which no call has been recorded performs
\* no transport exchange and returns None.
C29_EmptyMultiCallSendsNothing ==
    (client.fn = "batch" /\ client.recorded = 0) =>
        /\ client.exchanges = <<>>
        /\ client.returned \in {"unset", "None"}
        /\ client.view = <<>>

C29_Witness ==
    /\ client.fn = "batch"
    /\ client.recorded = 0
    /\ client.returned = "None"
    /\ client.exchanges = <<>>


\* ------------------------------------------------------------------------
\* C30: a proxy call made with both positional and keyword arguments raises
\* ProtocolError before anything is encoded, and no request reaches the
\* transport, for the synchronous and for the asynchronous proxy; a call
\* with one kind of arguments, or none, is encoded and sent once.
C30_BothKindsOfArguments ==
    client.fn = "__call__" =>
        IF Truthy(client.args) /\ Truthy(client.kwargs)
        THEN /\ client.did.raised = "ProtocolError"
             /\ client.did.encoded = <<>>
             /\ client.did.requests = <<>>
        ELSE /\ client.did.raised = ""
             /\ Len(client.did.requests) = 1

C30_Witness ==
    /\ client.fn = "__call__"
    /\ client.proxy = "ServerProxy"
    /\ client.args = "(1,2)"
    /\ client.kwargs = "{a:1}"
    /\ client.did = ProxyCall("ProtocolError", <<>>, <<>>)

\* ------------------------------------------------------------------------
\* Additional headers of the client transport (impl/__init__.py 53-121,
\* jsonrpc.py 537 and 646-661)

MaxStack == 3

\* Header dictionaries a caller supplies
HeaderDicts == {"{}", "{X-Test:1}", "{X-Level:2}"}

\* push_headers(headers): self.additional_headers.append(headers)
push_headers(stack, headers) == Append(stack, headers)

\* pop_headers(headers): assert self.additional_headers[-1] == headers, then
\* self.additional_headers.pop()
pop_headers(stack, headers) ==
    IF stack[Len(stack)] = headers
    THEN [raised |-> "", stack |-> SubSeq(stack, 1, Len(stack) - 1)]
    ELSE [raised |-> "AssertionError", stack |-> stack]

\* A `with client._additional_headers(headers)` block that is open, with the
\* stack as it was before the block was entered
Block(headers, before) == [headers |-> headers, before |-> before]

\* A block has ended: how, and the stack before it was entered and after
BlockEnded(how, before, after) ==
    [how |-> how, before |-> before, after |-> after]

\* ServerProxy.__init__: self.__transport.push_headers(headers or {})
ServerProxy___init__(headers) ==
    /\ ~transport.constructed
    /\ transport' = [transport EXCEPT
           !.constructed = TRUE,
           !.additional_headers =
               push_headers(@, IF headers = None THEN "{}" ELSE headers)]
    /\ UNCHANGED <<core, request_pool, resolution, awaited, stdout, site>>

\* The block is entered: _additional_headers runs up to its `yield self`
EnterBlock(headers) ==
    /\ transport.constructed
    /\ transport.raising = ""
    /\ Len(transport.additional_headers) < MaxStack
    /\ transport' = [transport EXCEPT
           !.additional_headers = push_headers(@, headers),
           !.blocks = Append(@, Block(headers, transport.additional_headers))]
    /\ UNCHANGED <<core, request_pool, resolution, awaited, stdout, site>>

\* The body of the innermost block ends normally: the generator is resumed
\* after its `yield` and runs pop_headers(headers); a failed assertion leaves
\* the `with` statement as an exception
LeaveBlock ==
    LET block == transport.blocks[Len(transport.blocks)]
        left(popped) ==
            [transport EXCEPT
                !.additional_headers = popped.stack,
                !.blocks = SubSeq(@, 1, Len(@) - 1),
                !.raising = popped.raised,
                !.ended = BlockEnded(IF popped.raised = "" THEN "normal"
                                     ELSE "assert",
                                     block.before, popped.stack)]
    IN  /\ transport.raising = ""
        /\ transport.blocks # <<>>
        /\ transport' = left(pop_headers(transport.additional_headers,
                                         block.headers))
        /\ UNCHANGED <<core, request_pool, resolution, awaited, stdout, site>>

\* A call made inside the innermost block raises
RaiseInBlock ==
    /\ transport.raising = ""
    /\ transport.blocks # <<>>
    /\ transport' = [transport EXCEPT !.raising = "Exception"]
    /\ UNCHANGED <<core, request_pool, resolution, awaited, stdout, site>>

\* The exception leaves the innermost block: it is thrown into the generator
\* at its `yield`, which has no try/finally around it, so the generator ends
\* there and the statement after the `yield` is not run
Unwind ==
    LET block == transport.blocks[Len(transport.blocks)]
    IN  /\ transport.raising # ""
        /\ transport.blocks # <<>>
        /\ transport' = [transport EXCEPT
               !.blocks = SubSeq(@, 1, Len(@) - 1),
               !.ended = BlockEnded("raised", block.before,
                                    transport.additional_headers)]
        /\ UNCHANGED <<core, request_pool, resolution, awaited, stdout, site>>

\* The caller catches the exception, inside or outside the remaining blocks
Catch ==
    /\ transport.raising # ""
    /\ transport' = [transport EXCEPT !.raising = ""]
    /\ UNCHANGED <<core, request_pool, resolution, awaited, stdout, site>>

InitHeaders == Init /\ dispatch_method = None /\ instance = None

NextHeaders ==
    \/ \E headers \in HeaderDicts \cup {None} : ServerProxy___init__(headers)
    \/ \E headers \in HeaderDicts : EnterBlock(headers)
    \/ LeaveBlock
    \/ RaiseInBlock
    \/ Unwind
    \/ Catch

SpecHeaders == InitHeaders /\ [][NextHeaders]_vars

\* C31: after a `with client._additional_headers(h)` block has ended, normally
\* or because a call inside it raised, the additional-header stack of the
\* transport is the one it was before the block was entered
C31_StackRestoredAfterBlock ==
    transport.ended.how # "" => transport.ended.after = transport.ended.before

\* ------------------------------------------------------------------------
\* The worker pool of the pooled server (jsonrpclib/threadpool.py, described
\* in section 4.3 of the specification; SimpleJSONRPCServer.py 258-306)

MaxWorkers == 2
MaxTasks == 3

\* The threads the pool could create: one more than it is allowed to
Workers == 1..(MaxWorkers + 1)
TaskIds == 1..MaxTasks

\* What a task does when a worker runs it
TaskKinds == {"returns", "raises"}

\* A worker that does not exist (not created yet, or exited)
NoWorker == [st |-> "none", task |-> 0]
IdleWorker == [st |-> "idle", task |-> 0]
Running(task) == [st |-> "running", task |-> task]

\* The live worker set
Live(p) == {w \in Workers : p.workers[w].st # "none"}
Idle(p) == {w \in Workers : p.workers[w].st = "idle"}

\* The first `n` workers are created
Spawned(n) == [w \in Workers |-> IF w <= n THEN IdleWorker ELSE NoWorker]

\* ThreadPool(maxWorkers, minWorkers): a pool that is not started; `kinds`,
\* `ran` and `by` record, for each task, what it does, how many times it was
\* executed and by which workers; `refused` are the tasks enqueue did not
\* accept and `at_stop` those queued or running when stop() was called
ThreadPool(max_threads, min_threads) ==
    [state |-> "created", max |-> max_threads, min |-> min_threads,
     queue |-> <<>>, workers |-> Spawned(0),
     next |-> 1, kinds |-> [t \in TaskIds |-> ""],
     ran |-> [t \in TaskIds |-> 0], by |-> [t \in TaskIds |-> {}],
     refused |-> {}, at_stop |-> {}]

\* start(): spins up minWorkers
ThreadPool_start(p) ==
    [p EXCEPT !.state = "started", !.workers = Spawned(p.min)]

\* The variant of enqueue that adds a worker whenever none is idle
ThreadPool_enqueue_unbounded(p, kind) ==
    LET task == p.next
        free == Workers \ Live(p)
        slot == CHOOSE w \in free : \A v \in free : w <= v
    IN  IF p.state # "started"
        THEN [p EXCEPT !.next = @ + 1, !.kinds[task] = kind,
                       !.refused = @ \cup {task}]
        ELSE [p EXCEPT !.next = @ + 1, !.kinds[task] = kind,
                       !.queue = Append(@, task),
                       !.workers = IF Idle(p) = {} /\ free # {}
                                   THEN [@ EXCEPT ![slot] = IdleWorker]
                                   ELSE @]

\* enqueue(task): never blocks the caller; the task is appended to the queue
\* and a worker is added if none is idle and fewer than maxWorkers are alive;
\* a pool that is stopping or stopped accepts no task
ThreadPool_enqueue(p, kind) ==
    LET task == p.next
        free == Workers \ Live(p)
        slot == CHOOSE w \in free : \A v \in free : w <= v
    IN  IF p.state # "started"
        THEN [p EXCEPT !.next = @ + 1, !.kinds[task] = kind,
                       !.refused = @ \cup {task}]
        ELSE [p EXCEPT !.next = @ + 1, !.kinds[task] = kind,
                       !.queue = Append(@, task),
                       !.workers =
                           IF Idle(p) = {} /\ Cardinality(Live(p)) < p.max
                           THEN [@ EXCEPT ![slot] = IdleWorker]
                           ELSE @]

\* The variant of the worker that leaves the task it takes in the queue
Worker_take_keeping(p, w) ==
    [p EXCEPT !.workers[w] = Running(Head(p.queue))]

\* An idle worker takes the first task of the queue
Worker_take(p, w) ==
    [p EXCEPT !.workers[w] = Running(Head(p.queue)), !.queue = Tail(@)]

\* The worker has run its task; an error raised by the task is caught at the
\* worker boundary and logged, and the worker is idle again
Worker_done(p, w) ==
    LET task == p.workers[w].task
    IN  [p EXCEPT !.workers[w] = IdleWorker,
                  !.ran[task] = @ + 1,
                  !.by[task] = @ \cup {w}]

\* stop(): no new task is accepted and the workers are told to exit once the
\* queue is drained
ThreadPool_stop(p) ==
    [p EXCEPT !.state = "stopping",
              !.at_stop = {p.queue[k] : k \in 1..Len(p.queue)} \cup
                          {p.workers[w].task :
                              w \in {v \in Workers : p.workers[v].st = "running"}}]

\* The variant of the join that does not wait for the workers
ThreadPool_joined_at_once(p) == p.state = "stopping"

\* stop() has joined every worker
ThreadPool_joined(p) == p.state = "stopping" /\ Live(p) = {}

\* PooledJSONRPCServer.__init__: thread_pool = ThreadPool(30, 0), or the pool
\* the caller made; here with MaxWorkers workers at most
MakePool(min_threads) ==
    /\ request_pool = NoPool
    /\ request_pool' = ThreadPool(MaxWorkers, min_threads)
    /\ UNCHANGED <<core, transport, resolution, awaited, stdout, site>>

\* thread_pool.start()
StartPool ==
    /\ request_pool.state = "created"
    /\ request_pool' = ThreadPool_start(request_pool)
    /\ UNCHANGED <<core, transport, resolution, awaited, stdout, site>>

\* process_request: self.__request_pool.enqueue(self.process_request_thread,
\* request, client_address)
process_request(kind) ==
    /\ request_pool.state \in {"started", "stopping", "stopped"}
    /\ request_pool.next <= MaxTasks
    /\ request_pool' = ThreadPool_enqueue(request_pool, kind)
    /\ UNCHANGED <<core, transport, resolution, awaited, stdout, site>>

\* A worker takes a task
TakeTask(w) ==
    /\ request_pool.state \in {"started", "stopping"}
    /\ request_pool.workers[w].st = "idle"
    /\ request_pool.queue # <<>>
    /\ request_pool' = Worker_take(request_pool, w)
    /\ UNCHANGED <<core, transport, resolution, awaited, stdout, site>>

\* The task a worker runs returns or raises
FinishTask(w) ==
    /\ request_pool.state \in {"started", "stopping"}
    /\ request_pool.workers[w].st = "running"
    /\ request_pool' = Worker_done(request_pool, w)
    /\ UNCHANGED <<core, transport, resolution, awaited, stdout, site>>

\* An idle worker exits: when the pool is stopping and the queue is drained,
\* or when more than minWorkers are alive and the queue is empty
WorkerExit(w) ==
    /\ request_pool.state \in {"started", "stopping"}
    /\ request_pool.workers[w].st = "idle"
    /\ request_pool.queue = <<>>
    /\ \/ request_pool.state = "stopping"
       \/ Cardinality(Live(request_pool)) > request_pool.min
    /\ request_pool' = [request_pool EXCEPT !.workers[w] = NoWorker]
    /\ UNCHANGED <<core, transport, resolution, awaited, stdout, site>>

\* server_close: self.__request_pool.stop() is called
server_close ==
    /\ request_pool.state = "started"
    /\ request_pool' = ThreadPool_stop(request_pool)
    /\ UNCHANGED <<core, transport, resolution, awaited, stdout, site>>

\* stop() returns
StopReturns ==
    /\ ThreadPool_joined(request_pool)
    /\ request_pool' = [request_pool EXCEPT !.state = "stopped"]
    /\ UNCHANGED <<core, transport, resolution, awaited, stdout, site>>

InitPool == Init /\ dispatch_method = None /\ instance = None

NextPool ==
    \/ \E min_threads \in {0, 1} : MakePool(min_threads)
    \/ StartPool
    \/ \E kind \in TaskKinds : process_request(kind)
    \/ \E w \in Workers : TakeTask(w)
    \/ \E w \in Workers : FinishTask(w)
    \/ \E w \in Workers : WorkerExit(w)
    \/ server_close
    \/ StopReturns

SpecPool == InitPool /\ [][NextPool]_vars

\* The tasks the pool accepted
Accepted == {t \in TaskIds : t < request_pool.next} \ request_pool.refused

C34_AtMostMaxWorkers ==
    request_pool.state \in {"started", "stopping", "stopped"} =>
        /\ Cardinality(Live(request_pool)) <= request_pool.max
        /\ \A kind \in TaskKinds :
               (/\ request_pool.state = "started"
                /\ request_pool.next <= MaxTasks
                /\ Cardinality(Live(request_pool)) = request_pool.max) =>
                   /\ ThreadPool_enqueue(request_pool, kind).queue =
                          Append(request_pool.queue, request_pool.next)
                   /\ ThreadPool_enqueue(request_pool, kind).workers =
                          request_pool.workers

\* A task waits in the queue while every worker allowed is busy
C34_Witness ==
    /\ request_pool.state = "started"
    /\ Cardinality(Live(request_pool)) = request_pool.max
    /\ Idle(request_pool) = {}
    /\ request_pool.queue # <<>>

\* ------------------------------------------------------------------------
\* Method resolution (server_protocol.py 388-464)

\* What register_instance may have been given
Instances == {None, "object", "dispatcher", "resolver"}

\* Method names of the requests: registered ones, attributes of the instance,
\* a name the instance's _dispatch knows, an unknown one and a private one
ResolvedNames ==
    {"s:sum", "s:namespace.sum", "s:fail", "s:get_object", "s:echo",
     "s:foobar", "s:_private"}

\* The call of _dispatch(method, params, config) that was made, the function
\* _resolve_method found for it and its outcome
Dispatch(method, params, func, done) ==
    [method |-> method, params |-> params, func |-> func,
     res |-> done.res, ran |-> done.calls]

\* self._dispatch(method, params, config)
CallDispatch(method, params) ==
    /\ resolution = NoDispatch
    /\ resolution' = Dispatch(method, params,
                              _resolve_method(instance, method),
                              _dispatch(instance, method, params, json_config))
    /\ UNCHANGED <<core, transport, request_pool, awaited, stdout, site>>

\* _dispatch returns to _dispatch_caller_single
ReturnDispatch ==
    /\ resolution # NoDispatch
    /\ resolution' = NoDispatch
    /\ UNCHANGED <<core, transport, request_pool, awaited, stdout, site>>

InitResolve ==
    /\ Constructed
    /\ dispatch_method = None
    /\ instance \in Instances

NextResolve ==
    \/ \E method \in ResolvedNames, params \in ListLits \cup DictLits :
          CallDispatch(method, params)
    \/ ReturnDispatch

SpecResolve == InitResolve /\ [][NextResolve]_vars

\* The outcome is the one of the function, called with the parameters
ServedBy(func) ==
    /\ resolution.func = func
    /\ resolution.ran = CallsOf(func, resolution.params)
    /\ LET called == Call(func, resolution.params).res
       IN  IF called.t = "raise" THEN resolution.res.t = "fault"
           ELSE resolution.res = called

\* C35: a registered name (one with dots included) is served by the
\* registered function, also when the instance has an attribute of that name;
\* an unregistered name is resolved against the instance by its dotted path,
\* and a name that neither resolves gets the Fault -32601
C35_RegistryThenInstanceThenFault ==
    resolution # NoDispatch =>
        IF resolution.method \in funcs
        THEN ServedBy(Registered(resolution.method))
        ELSE IF instance # None /\ resolution.method \in InstanceAttrs
        THEN ServedBy(Attribute(resolution.method))
        ELSE /\ resolution.res.t = "fault"
             /\ resolution.res.fault.code = -32601

\* ------------------------------------------------------------------------
\* The two protocol handlers on the same request text

\* The request text given to both handlers and what each returned
BothHandled(text, sync, async) ==
    [given |-> TRUE, text |-> text,
     sync |-> [result |-> sync.result, outcomes |-> sync.outcomes,
               calls |-> sync.calls],
     async |-> async]

\* The same request text is given to a JsonRpcProtocolHandler without
\* notification pool and to an AsyncJsonRpcProtocolHandler with the same
\* registered methods
HandleOnBoth(text) ==
    /\ awaited = NoRequest
    /\ awaited' = BothHandled(text,
           handle_request_str(text, dispatch_method, None, json_config,
                              instance),
           Async_handle_request_str(text, dispatch_method, json_config,
                                    instance))
    /\ UNCHANGED <<core, transport, request_pool, resolution, stdout, site>>

\* Both handlers wait for the next request
NextRequest ==
    /\ awaited # NoRequest
    /\ awaited' = NoRequest
    /\ UNCHANGED <<core, transport, request_pool, resolution, stdout, site>>

InitAsync == Init

NextAsync ==
    \/ \E text \in RequestTexts : HandleOnBoth(text)
    \/ NextRequest

SpecAsync == InitAsync /\ [][NextAsync]_vars

\* C36: for every request text and the same registered synchronous methods,
\* the asynchronous handler returns what the synchronous handler returns
\* without notification pool: same result (fault codes, ids, order of the
\* batch responses, no content), and the same methods were run
C36_AsyncSameAsSync ==
    awaited.given =>
        /\ awaited.async.result = awaited.sync.result
        /\ awaited.async.outcomes = awaited.sync.outcomes
        /\ awaited.async.calls = awaited.sync.calls

\* A batch of a call, a failing call and a notification, answered by both
C36_Witness ==
    /\ awaited.given
    /\ awaited.async.result.kind = "list"
    /\ Len(awaited.async.result.items) = 1
    /\ Len(awaited.async.outcomes) = 2
    /\ \E i \in 1..2 : awaited.async.outcomes[i] = NoResponse

\* ------------------------------------------------------------------------
\* The CGI request handler (SimpleJSONRPCServer.py 311-344)

\* What handle_jsonrpc wrote on the standard output, or the error it ended
\* with: response.encode(...), then the two headers, an empty line and the
\* body
Written(text, raised, headers, content) ==
    [called |-> TRUE, text |-> text, raised |-> raised, headers |-> headers,
     content |-> content]

\* CGIJSONRPCRequestHandler.handle_jsonrpc(request_text): marshaled_dispatch
\* returns None for no content, and None has no `encode`
handle_jsonrpc(request_text, version, registered) ==
    LET written(response) ==
            IF response.body.none
            THEN Written(request_text, "AttributeError", <<>>, NoBody)
            ELSE Written(request_text, "",
                         <<"Content-Type", "Content-Length">>,
                         response.body)
    IN  written(marshaled_dispatch(request_text, None, None, version,
                                   registered))

\* The CGI script is run for one request
HandleCGI(request_text) ==
    /\ ~stdout.called
    /\ stdout' = handle_jsonrpc(request_text, json_config, instance)
    /\ UNCHANGED <<core, transport, request_pool, resolution, awaited, site>>

\* The script ends
ExitCGI ==
    /\ stdout.called
    /\ stdout' = NothingWritten
    /\ UNCHANGED <<core, transport, request_pool, resolution, awaited, site>>

InitCGI == Init /\ dispatch_method = None

NextCGI ==
    \/ \E request_text \in RequestTexts : HandleCGI(request_text)
    \/ ExitCGI

SpecCGI == InitCGI /\ [][NextCGI]_vars

\* C40: handle_jsonrpc writes a complete reply (the Content-Type and
\* Content-Length headers, then the body) for every request text, with an
\* empty body when the dispatch outcome is no content, and never fails
C40_CompleteReplyForEveryRequest ==
    stdout.called =>
        /\ stdout.raised = ""
        /\ stdout.headers = <<"Content-Type", "Content-Length">>
        /\ marshaled_dispatch(stdout.text, None, None, json_config,
                              instance).body.none =>
               stdout.content.text = <<>>

\* ------------------------------------------------------------------------
\* The aiohttp server (impl/aiohttp_impl.py 203-272)

MaxRuns == 2

\* Ports a server may be given (0 for a random port), and the ports the
\* system may choose then
GivenPorts == {0, 8080, 8443}
RandomPorts == {49152, 49153}

\* AiohttpJsonRpcServer.__init__: the stop event is not set, the server does
\* not listen (_real_port = -1), run() was not called; `asked` tells where
\* run() was when shutdown() was first called, until run() has returned
AiohttpJsonRpcServer(port) ==
    [pc |-> "new", _port |-> port, _stop_event |-> FALSE, _real_port |-> -1,
     asked |-> "", runs |-> 0]

\* AiohttpJsonRpcServer(handler, address, port)
MakeServer(port) ==
    /\ site = NoServer
    /\ site' = AiohttpJsonRpcServer(port)
    /\ UNCHANGED <<core, transport, request_pool, resolution, awaited, stdout>>

\* Where run() is
RunIs ==
    IF site.pc \in {"new", "returned"} THEN "before"
    ELSE IF site.pc \in {"setup", "starting"} THEN "starting"
    ELSE IF site.pc = "waiting" THEN "serving"
    ELSE "ending"

\* shutdown(): self._stop_event.set()
shutdown ==
    /\ site # NoServer
    /\ site' = [site EXCEPT !._stop_event = TRUE,
                            !.asked = IF @ = "" THEN RunIs ELSE @]
    /\ UNCHANGED <<core, transport, request_pool, resolution, awaited, stdout>>

\* run() is called: self._stop_event.clear(), the runner is made, and run()
\* waits for self._runner.setup()
RunBegins ==
    /\ site.pc \in {"new", "returned"}
    /\ site.runs < MaxRuns
    /\ site' = [site EXCEPT !.pc = "setup", !._stop_event = FALSE,
                            !.runs = @ + 1]
    /\ UNCHANGED <<core, transport, request_pool, resolution, awaited, stdout>>

\* The runner is set up: the site is made, and run() waits for
\* self._site.start()
RunnerSetUp ==
    /\ site.pc = "setup"
    /\ site' = [site EXCEPT !.pc = "starting"]
    /\ UNCHANGED <<core, transport, request_pool, resolution, awaited, stdout>>

\* The site listens: self._real_port is the port of its socket, and run()
\* waits for the stop event
SiteStarted(port) ==
    /\ site.pc = "starting"
    /\ port \in (IF site._port = 0 THEN RandomPorts ELSE {site._port})
    /\ site' = [site EXCEPT !.pc = "waiting", !._real_port = port]
    /\ UNCHANGED <<core, transport, request_pool, resolution, awaited, stdout>>

\* `await self._stop_event.wait()` returns once the event is set; the
\* `finally` block sets self._real_port = -1 and waits for self._site.stop()
StopEventSeen ==
    /\ site.pc = "waiting"
    /\ site._stop_event
    /\ site' = [site EXCEPT !.pc = "stopping", !._real_port = -1]
    /\ UNCHANGED <<core, transport, request_pool, resolution, awaited, stdout>>

\* The site is stopped; run() waits for self._runner.shutdown()
SiteStopped ==
    /\ site.pc = "stopping"
    /\ site' = [site EXCEPT !.pc = "shutting"]
    /\ UNCHANGED <<core, transport, request_pool, resolution, awaited, stdout>>

\* run() returns
RunReturns ==
    /\ site.pc = "shutting"
    /\ site' = [site EXCEPT !.pc = "returned", !.asked = ""]
    /\ UNCHANGED <<core, transport, request_pool, resolution, awaited, stdout>>

\* The steps of run() the event loop takes
RunSteps ==
    \/ RunnerSetUp
    \/ \E port \in RandomPorts \cup GivenPorts : SiteStarted(port)
    \/ StopEventSeen
    \/ SiteStopped
    \/ RunReturns

InitSite == Init /\ dispatch_method = None /\ instance = None

NextSite ==
    \/ \E port \in GivenPorts : MakeServer(port)
    \/ shutdown
    \/ RunBegins
    \/ RunSteps

\* The event loop runs the coroutine of run() as long as it can go on
SpecSite == InitSite /\ [][NextSite]_vars /\ WF_vars(RunSteps)

\* C39: once shutdown() has been called, before run() starts, while it is
\* starting or while it is serving, run() eventually stops the site and
\* returns, and get_port() is -1 once run() has returned
C39_ShutdownEndsRun ==
    /\ (site.pc \notin {"none", "new", "returned"} /\ site.asked # "")
           ~> (site.pc = "returned")
    /\ [](site.pc = "returned" => site._real_port = -1)


\* ------------------------------------------------------------------------
\* The pending list of a MultiCall: attributes read, calls rejected,
\* exchanges that fail (jsonrpclib.jsonrpc)

\* Calls that mix positional and keyword arguments
MixedCalls == {<<"s:sum", "(1,2)", "{a:1}">>}

\* multicall() when the transport raises (the connection is refused, the
\* server answers with an HTTP error)
ExchangeFails ==
    /\ client.fn = "batch"
    /\ Len(client.job_list) >= 1
    /\ Execute(TransportFailure)

InitPending ==
    /\ Init
    /\ dispatch_method = None
    /\ instance = None

NextPending ==
    \/ MultiCall
    \/ \E call \in RecordedCalls, notify \in BOOLEAN :
          RecordCall(call[1], call[2], call[3], notify)
    \/ \E notify \in BOOLEAN : ReadAttribute("s:sum", notify)
    \/ \E call \in MixedCalls, notify \in BOOLEAN :
          RejectCall(call[1], call[2], call[3], notify)
    \/ \E response \in ReplyArrays : Execute(response)
    \/ ExchangeFails

SpecPending == InitPending /\ [][NextPending]_vars

\* C37 as stated: the pending list of a MultiCall holds exactly one entry
\* per accepted call; an attribute that was read and not called, and a call
\* rejected with ProtocolError, leave no entry in it.
C37_OneEntryPerAcceptedCall ==
    client.fn = "batch" => Len(client.job_list) = client.accepted

\* C38: when the exchange of an execution fails, the pending list is left
\* as it was, and the next execution (no call being recorded in between)
\* sends the body of the failed exchange again, the same calls in the same
\* order.
C38_FailedExchangeKeepsPendingList ==
    [][(client.fn = "batch" /\ client'.fn = "batch") =>
          /\ (client'.lost # client.lost
              \/ (client'.returned = "raised"
                  /\ client'.exchanges = client.exchanges
                  /\ client'.recorded = client.recorded)) =>
                /\ client'.job_list = client.job_list
                /\ client'.lost = MultiCall_request(client.job_list)
          /\ (client.returned = "raised"
              /\ client.lost = MultiCall_request(client.job_list)
              /\ Len(client'.exchanges) > Len(client.exchanges)) =>
                /\ client'.exchanges[Len(client'.exchanges)] = client.lost
                /\ client'.executed = client.job_list]_vars

C38_Witness ==
    /\ client.fn = "batch"
    /\ client.lost # <<>>
    /\ Len(client.exchanges) = 1
    /\ client.exchanges[1] = client.lost
    /\ Len(client.executed) = 2
    /\ client.job_list = <<>>

====
